---- MODULE Spec2Model ----
(***************************************************************************)
(* Model of the phonid encoding pipeline: the phonetic configuration       *)
(* validator, the pattern-based mixed-radix codec, the phonetic encoder    *)
(* that dispatches between pattern codecs, the Feistel shuffler and the    *)
(* configuration aggregate that derives the shuffler's bit width.          *)
(***************************************************************************)
EXTENDS Integers, Sequences, FiniteSets, TLC

(***************************************************************************)
(* Bounds of the model.                                                    *)
(***************************************************************************)
\* largest number of patterns in a configuration's pattern list
MaxPatterns == 2
\* largest number of code points drawn for a consonant class
MaxClassSize == 3
\* largest bit width for which a shuffler is constructed and enumerated
MaxBitWidth == 7
\* largest round count handed to NewFeistelShuffler (one above is rejected)
MaxRoundsTried == 3
\* largest seed handed to the shuffler
MaxSeed == 1
\* the numbers 0..MaxNumber-1 are enumerated when a capacity is larger
MaxNumber == 128
\* longest list of assertions handed to ValidatePreflight
MaxChecks == 2
\* goroutines calling the shared encoder and shuffler at the same time
MaxGoroutines == 2

(***************************************************************************)
(* 64-bit unsigned words, kept as four 16-bit limbs, least significant     *)
(* first.  Go's uint64 arithmetic wraps modulo 2^64.                       *)
(***************************************************************************)
Limb == 65536

W64(n) == << n % Limb, (n \div Limb) % Limb, 0, 0 >>

\* propagate carries of four partial sums, dropping the carry out of limb 3
Carry(r) ==
    LET c0 == r[1] \div Limb
        s1 == r[2] + c0
        c1 == s1 \div Limb
        s2 == r[3] + c1
        c2 == s2 \div Limb
        s3 == r[4] + c2
    IN  << r[1] % Limb, s1 % Limb, s2 % Limb, s3 % Limb >>

RECURSIVE XorNat(_, _)
XorNat(a, b) ==
    IF a = 0 THEN b
    ELSE IF b = 0 THEN a
    ELSE ((a + b) % 2) + 2 * XorNat(a \div 2, b \div 2)

\* the eight bytes binary.Write(h, binary.LittleEndian, v) feeds to the hash
LittleEndian(w) ==
    << w[1] % 256, w[1] \div 256, w[2] % 256, w[2] \div 256,
       w[3] % 256, w[3] \div 256, w[4] % 256, w[4] \div 256 >>

\* FNV-1a 64: offset basis 0xcbf29ce484222325, prime 0x00000100000001b3
FnvOffset == << 8997, 33826, 40164, 52210 >>

FnvPrimeLow == 435

FnvMul(h) ==
    Carry(<< h[1] * FnvPrimeLow,
             h[2] * FnvPrimeLow,
             h[3] * FnvPrimeLow + h[1] * 256,
             h[4] * FnvPrimeLow + h[2] * 256 >>)

FnvStep(h, byte) ==
    FnvMul(<< (h[1] \div 256) * 256 + XorNat(h[1] % 256, byte), h[2], h[3], h[4] >>)

\* the one element of a singleton set
Only(S) == CHOOSE e \in S : TRUE

\* the hash state after the first i bytes have been written; each state is
\* computed in full before the next byte is mixed in
RECURSIVE FnvWrite(_, _)
FnvWrite(bytes, i) ==
    IF i = 0 THEN FnvOffset
    ELSE Only({ FnvStep(h, bytes[i]) : h \in { FnvWrite(bytes, i - 1) } })

\* h.Reset(); Write(a); Write(b); h.Sum64()
Fnv64a(a, b) == FnvWrite(LittleEndian(a) \o LittleEndian(b), 16)

RECURSIVE Pow2(_)
Pow2(k) == IF k = 0 THEN 1 ELSE 2 * Pow2(k - 1)

\* w & mask for mask = 2^halfBits - 1, as a natural number (halfBits <= 30)
MaskLow(w, halfBits) ==
    IF halfBits <= 16 THEN w[1] % Pow2(halfBits)
    ELSE w[1] + Limb * (w[2] % Pow2(halfBits - 16))

(***************************************************************************)
(* Feistel shuffler.                                                       *)
(***************************************************************************)
NoShuffler == [err |-> TRUE, rounds |-> 0, bitWidth |-> 0, halfBits |-> 0,
               mask |-> 0, roundKeys |-> << >>]

\* roundKeys[i] = FNV-1a(seed, i) for i in 0..rounds-1 (1-based here)
\* the seed is not written to the hash
RoundKeys_Unseeded(rounds, seed) == [i \in 1..rounds |-> Fnv64a(W64(0), W64(i - 1))]

RoundKeys(rounds, seed) == [i \in 1..rounds |-> Fnv64a(W64(seed), W64(i - 1))]

\* the upper limit of the round count is not enforced
NewFeistelShuffler_AnyRounds(bitWidth, rounds, seed) ==
    IF bitWidth < 4 \/ bitWidth > 64 THEN NoShuffler
    ELSE IF rounds < 0 THEN NoShuffler
    ELSE LET halfBits == bitWidth \div 2
         IN  [err |-> FALSE, rounds |-> rounds, bitWidth |-> bitWidth,
              halfBits |-> halfBits, mask |-> Pow2(halfBits) - 1,
              roundKeys |-> RoundKeys(rounds, seed)]

NewFeistelShuffler(bitWidth, rounds, seed) ==
    IF bitWidth < 4 \/ bitWidth > 64 THEN NoShuffler
    ELSE IF rounds < 0 \/ rounds > 10 THEN NoShuffler
    ELSE LET halfBits == bitWidth \div 2
         IN  [err |-> FALSE, rounds |-> rounds, bitWidth |-> bitWidth,
              halfBits |-> halfBits, mask |-> Pow2(halfBits) - 1,
              roundKeys |-> RoundKeys(rounds, seed)]

roundFunction(fs, input, key) == MaskLow(Fnv64a(W64(input), key), fs.halfBits)

\* the left half masked as the right half is
Split_Masked(fs, v) == << (v \div (fs.mask + 1)) % (fs.mask + 1), v % (fs.mask + 1) >>

\* left = v >> halfBits (not masked), right = v & mask
Split(fs, v) == << v \div (fs.mask + 1), v % (fs.mask + 1) >>

\* one pass of the encode loop:
\* newRight = left ^ F(right, key); left = right; right = newRight & mask
EncodeRound(fs, halves, i) ==
    << halves[2],
       XorNat(halves[1], roundFunction(fs, halves[2], fs.roundKeys[i])) % (fs.mask + 1) >>

\* << left, right >> after the first i passes of the encode loop
RECURSIVE EncodeRounds(_, _, _)
EncodeRounds(f, v, i) ==
    IF i = 0 THEN Split(f, v)
    ELSE Only({ EncodeRound(f, halves, i) : halves \in { EncodeRounds(f, v, i - 1) } })

\* one pass of the decode loop:
\* newLeft = right ^ F(left, key); right = left; left = newLeft & mask
DecodeRound(fs, halves, i) ==
    << XorNat(halves[2], roundFunction(fs, halves[1], fs.roundKeys[i])) % (fs.mask + 1),
       halves[1] >>

\* << left, right >> once the decode loop has run from the last key down to key i
RECURSIVE DecodeRounds(_, _, _)
DecodeRounds(f, v, i) ==
    IF i > f.rounds THEN Split(f, v)
    ELSE Only({ DecodeRound(f, halves, i) : halves \in { DecodeRounds(f, v, i + 1) } })

\* (left << halfBits) | right, for right <= mask
Combine(fs, halves) == halves[1] * (fs.mask + 1) + halves[2]

\* the bound itself is let through: ">" in place of ">="
ShufflerEncode_BoundAccepted(fs, input) ==
    IF fs.bitWidth # 64 /\ input > Pow2(fs.bitWidth) THEN [err |-> TRUE, val |-> 0]
    ELSE [err |-> FALSE,
          val |-> Combine(fs, EncodeRounds(fs, input, fs.rounds))]

ShufflerEncode(fs, input) ==
    IF fs.bitWidth # 64 /\ input >= Pow2(fs.bitWidth) THEN [err |-> TRUE, val |-> 0]
    ELSE [err |-> FALSE,
          val |-> Combine(fs, EncodeRounds(fs, input, fs.rounds))]

ShufflerDecode(fs, encoded) ==
    IF fs.bitWidth # 64 /\ encoded >= Pow2(fs.bitWidth) THEN [err |-> TRUE, val |-> 0]
    ELSE [err |-> FALSE,
          val |-> Combine(fs, DecodeRounds(fs, encoded, 1))]

MaxValue(fs) == Pow2(fs.bitWidth) - 1

(***************************************************************************)
(* Phonetic configuration.  A class tag (PlaceholderType) is a rune; a     *)
(* pattern is a Go string, modelled as the sequence of its runes.  "EUR"   *)
(* stands for the rune U+20AC, whose UTF-8 encoding is three bytes long.   *)
(* Placeholders is a function from the defined tags to rune sequences.     *)
(***************************************************************************)
Consonant == "C"
Vowel == "V"
Liquid == "L"
Nasal == "N"
Sibilant == "S"
Fricative == "F"
CustomX == "X"
Euro == "EUR"

MinCharsForVowel == 2
MinCharsForComplement == 3

AllowedVowels == {"a", "e", "i", "o", "u", "y", "A", "E", "I", "O", "U", "Y"}
AllowedPatternLengths == {3, 5, 7, 11, 23}
ComplementPlaceholders == {Consonant, Liquid, Nasal, Sibilant, Fricative}

DefaultPlaceholders ==
    (Consonant :> << "b", "c", "d", "f", "g", "h", "j", "k",
                     "p", "q", "s", "t", "v", "w", "x", "z" >>)
    @@ (Liquid :> << "l", "m", "n", "r" >>)
    @@ (Vowel :> << "a", "e", "i", "o", "u" >>)

DefaultPatterns ==
    << << "C", "V", "C" >>,
       << "V", "C", "C", "V", "C" >>,
       << "C", "V", "C", "V", "C", "V", "C" >>,
       << "C", "V", "C", "V", "C", "V", "C", "V", "C", "V", "C" >> >>

\* number of bytes of the UTF-8 encoding of a rune
Utf8Len(r) == IF r = Euro THEN 3 ELSE 1

\* len(p) of a Go string: its length in bytes
RECURSIVE ByteLen(_)
ByteLen(p) == IF p = << >> THEN 0 ELSE Utf8Len(Head(p)) + ByteLen(Tail(p))

NoError == [kind |-> "ok", pattern |-> << >>, a |-> "", b |-> ""]
Error(kind, pattern, a, b) == [kind |-> kind, pattern |-> pattern, a |-> a, b |-> b]

isComplementPlaceholder(p) == p \in ComplementPlaceholders

hasDuplicates(runes) ==
    \E i, j \in 1..Len(runes) : i < j /\ runes[i] = runes[j]

hasOverlap(a, b) ==
    \E i \in 1..Len(a) : \E j \in 1..Len(b) : a[i] = b[j]

isAllowedLength(length) == length \in AllowedPatternLengths

\* "auml" stands for U+00E4, whose NFD form is "a" followed by a nonspacing mark
NfdBase(r) == IF r = "auml" THEN "a" ELSE r
isVowelBase(r) == r \in AllowedVowels \/ NfdBase(r) \in AllowedVowels

\* the placeholders with a non-zero count in the pattern
Used(pattern) == { pattern[i] : i \in 1..Len(pattern) }

\* countPlaceholders: the first rune of the pattern without a character set
Undefined(pattern, placeholders) ==
    { i \in 1..Len(pattern) : pattern[i] \notin DOMAIN placeholders }
Min(S) == CHOOSE x \in S : \A y \in S : x <= y
Max(S) == CHOOSE x \in S : \A y \in S : x >= y
countPlaceholders(pattern, placeholders) ==
    IF Undefined(pattern, placeholders) # {}
    THEN Error("undefined-placeholder", pattern,
               pattern[Min(Undefined(pattern, placeholders))], "")
    ELSE NoError

validateVowelSet(pattern, placeholder, chars) ==
    IF placeholder # Vowel THEN NoError
    ELSE IF Len(chars) = 0 THEN Error("empty-class", pattern, placeholder, "")
    ELSE IF \E i \in 1..Len(chars) : ~isVowelBase(chars[i])
    THEN Error("vowel-not-base-vowel", pattern, placeholder,
               chars[Min({ i \in 1..Len(chars) : ~isVowelBase(chars[i]) })])
    ELSE NoError

\* no class is ever too small
validateMinimumSize_Never(pattern, placeholder, chars) == NoError

validateMinimumSize(pattern, placeholder, chars) ==
    IF placeholder = Vowel /\ Len(chars) < MinCharsForVowel
    THEN Error("class-too-small", pattern, placeholder, "")
    ELSE NoError

\* the checks of one iteration of the loop over the placeholder map
CheckPlaceholderSet(pattern, placeholder, chars) ==
    IF hasDuplicates(chars) THEN Error("duplicate-in-class", pattern, placeholder, "")
    ELSE IF validateVowelSet(pattern, placeholder, chars) # NoError
    THEN validateVowelSet(pattern, placeholder, chars)
    ELSE validateMinimumSize(pattern, placeholder, chars)

\* The map is ranged over in an unspecified order and the first failing
\* placeholder returns: every failing used placeholder may be the one reported.
validatePlaceholderSets(pattern, placeholders) ==
    { CheckPlaceholderSet(pattern, ph, placeholders[ph]) :
        ph \in { q \in DOMAIN placeholders :
                   q \in Used(pattern)
                   /\ CheckPlaceholderSet(pattern, q, placeholders[q]) # NoError } }

requireVowel(pattern) ==
    IF Vowel \in Used(pattern) THEN NoError
    ELSE Error("missing-vowel", pattern, "", "")

\* any defined complement class counts, referenced by the pattern or not
requireMinimalComplement_AnyDefined(pattern, placeholders) ==
    IF \E ph \in DOMAIN placeholders :
          isComplementPlaceholder(ph) /\ Len(placeholders[ph]) >= MinCharsForComplement
    THEN NoError
    ELSE Error("missing-complement", pattern, "", "")

requireMinimalComplement(pattern, placeholders) ==
    IF \E ph \in Used(pattern) :
          isComplementPlaceholder(ph) /\ Len(placeholders[ph]) >= MinCharsForComplement
    THEN NoError
    ELSE Error("missing-complement", pattern, "", "")

\* no pair of classes is ever compared
validateNoOverlaps_None(pattern, placeholders) == {}

\* allPlaceholders is filled by ranging over a map: any overlapping pair, in
\* either order, may be the first one the nested loops meet.
validateNoOverlaps(pattern, placeholders) ==
    { Error("class-overlap", pattern, p1, p2) :
        <<p1, p2>> \in { pr \in Used(pattern) \X Used(pattern) :
                           pr[1] # pr[2]
                           /\ hasOverlap(placeholders[pr[1]], placeholders[pr[2]]) } }

\* the errors validatePattern may return; the empty set when it returns nil
validatePattern(pattern, placeholders) ==
    IF countPlaceholders(pattern, placeholders) # NoError
    THEN { countPlaceholders(pattern, placeholders) }
    ELSE IF validatePlaceholderSets(pattern, placeholders) # {}
    THEN validatePlaceholderSets(pattern, placeholders)
    ELSE IF requireVowel(pattern) # NoError THEN { requireVowel(pattern) }
    ELSE IF requireMinimalComplement(pattern, placeholders) # NoError
    THEN { requireMinimalComplement(pattern, placeholders) }
    ELSE validateNoOverlaps(pattern, placeholders)

\* nothing is written into the config
ApplyDefaults_Untouched(pc) == pc

\* PhonidConfig.Validate, first part: defaults are written into the config
ApplyDefaults(pc) ==
    [Patterns |-> IF Len(pc.Patterns) = 0 THEN DefaultPatterns ELSE pc.Patterns,
     Placeholders |-> IF DOMAIN pc.Placeholders = {} THEN DefaultPlaceholders
                      ELSE pc.Placeholders]

\* the errors the i-th iteration of the loop over the patterns may return
PatternErrors(pc, i) ==
    LET p == pc.Patterns[i]
        patternLen == ByteLen(p)
    IN  IF \E j \in 1..(i - 1) : ByteLen(pc.Patterns[j]) = patternLen
        THEN { Error("duplicate-pattern-length", p, "", "") }
        ELSE IF ~isAllowedLength(patternLen)
        THEN { Error("pattern-length-disallowed", p, "", "") }
        ELSE validatePattern(p, pc.Placeholders)

\* PhonidConfig.Validate on a config with defaults applied: the set of errors
\* it may return (fail-fast: those of the first failing pattern)
Validate(pc) ==
    LET failing == { i \in 1..Len(pc.Patterns) : PatternErrors(pc, i) # {} }
    IN  IF failing = {} THEN {} ELSE PatternErrors(pc, Min(failing))

(***************************************************************************)
(* Go's int is a 64-bit two's complement word: products wrap modulo 2^64   *)
(* and comparisons are signed.  Capacities are kept as limbs.              *)
(***************************************************************************)
\* w * m modulo 2^64, for 0 <= m < 2^15
MulSmall(w, m) == Carry(<< w[1] * m, w[2] * m, w[3] * m, w[4] * m >>)

\* a + b modulo 2^64
AddW(a, b) == Carry(<< a[1] + b[1], a[2] + b[2], a[3] + b[3], a[4] + b[4] >>)

IsNegative(w) == w[4] >= 32768

\* the word is a natural number below 2^30
IsSmall(w) == w[4] = 0 /\ w[3] = 0 /\ w[2] < 16384
ToNat(w) == w[1] + Limb * w[2]

\* unsigned comparison, most significant limb first
UnsignedLess(a, b) ==
    \E k \in 1..4 : a[k] < b[k] /\ \A m \in (k + 1)..4 : a[m] = b[m]

\* a < b as signed 64-bit integers
SignedLess(a, b) ==
    IF IsNegative(a) # IsNegative(b) THEN IsNegative(a) ELSE UnsignedLess(a, b)

\* number < w for a natural number below 2^30
NatLess(number, w) ==
    ~IsNegative(w) /\ (~IsSmall(w) \/ number < ToNat(w))

\* w - 1 for w # 0
Decrement(w) ==
    IF w[1] > 0 THEN << w[1] - 1, w[2], w[3], w[4] >>
    ELSE IF w[2] > 0 THEN << Limb - 1, w[2] - 1, w[3], w[4] >>
    ELSE IF w[3] > 0 THEN << Limb - 1, Limb - 1, w[3] - 1, w[4] >>
    ELSE << Limb - 1, Limb - 1, Limb - 1, w[4] - 1 >>

RECURSIVE BitLenNat(_)
BitLenNat(n) == IF n = 0 THEN 0 ELSE 1 + BitLenNat(n \div 2)

\* number of iterations of "for value > 0 { bitWidth++; value >>= 1 }"
BitLen(w) ==
    IF w[4] > 0 THEN 48 + BitLenNat(w[4])
    ELSE IF w[3] > 0 THEN 32 + BitLenNat(w[3])
    ELSE IF w[2] > 0 THEN 16 + BitLenNat(w[2])
    ELSE BitLenNat(w[1])

\* the bits of the capacity itself are counted, not those of capacity - 1
calculateRequiredBitWidth_NoDecrement(totalCombinations) ==
    IF IsNegative(totalCombinations) \/ totalCombinations = W64(0)
       \/ totalCombinations = W64(1)
    THEN 1
    ELSE BitLen(totalCombinations)

calculateRequiredBitWidth(totalCombinations) ==
    IF IsNegative(totalCombinations) \/ totalCombinations = W64(0)
       \/ totalCombinations = W64(1)
    THEN 1
    ELSE BitLen(Decrement(totalCombinations))

(***************************************************************************)
(* Pattern codec and phonetic encoder.                                     *)
(***************************************************************************)
Position(placeholder, chars) ==
    [placeholder |-> placeholder, chars |-> chars, base |-> Len(chars)]

RECURSIVE Product(_, _)
Product(positions, i) ==
    IF i = 0 THEN W64(1) ELSE MulSmall(Product(positions, i - 1), positions[i].base)

NoPatternEncoder ==
    [err |-> TRUE, pattern |-> << >>, positions |-> << >>,
     totalCombinations |-> W64(0), length |-> 0]

buildPatternEncoder(pattern, placeholders) ==
    IF pattern = << >> THEN NoPatternEncoder
    ELSE IF \E i \in 1..Len(pattern) :
               pattern[i] \notin DOMAIN placeholders
               \/ Len(placeholders[pattern[i]]) = 0
    THEN NoPatternEncoder
    ELSE LET positions == [i \in 1..Len(pattern) |->
                              Position(pattern[i], placeholders[pattern[i]])]
         IN  [err |-> FALSE, pattern |-> pattern, positions |-> positions,
              totalCombinations |-> Product(positions, Len(positions)),
              length |-> Len(positions)]

Swap(ps, i, j) == [ps EXCEPT ![i] = ps[j], ![j] = ps[i]]

\* one pass that compares neighbours only
RECURSIVE SortLoop_SinglePass(_, _, _)
SortLoop_SinglePass(ps, i, j) ==
    IF i >= Len(ps) THEN ps
    ELSE IF SignedLess(ps[i + 1].totalCombinations, ps[i].totalCombinations)
    THEN SortLoop_SinglePass(Swap(ps, i, i + 1), i + 1, j)
    ELSE SortLoop_SinglePass(ps, i + 1, j)

\* the nested loops "for i ... for j := i+1 ..." with their conditional swap
RECURSIVE SortLoop(_, _, _)
SortLoop(ps, i, j) ==
    IF i > Len(ps) THEN ps
    ELSE IF j > Len(ps) THEN SortLoop(ps, i + 1, i + 2)
    ELSE IF SignedLess(ps[j].totalCombinations, ps[i].totalCombinations)
    THEN SortLoop(Swap(ps, i, j), i, j + 1)
    ELSE SortLoop(ps, i, j + 1)

NoEncoder == [err |-> TRUE, patterns |-> << >>]

\* the pattern encoders left in the order of config.Patterns
newPhoneticEncoder_Unsorted(config) ==
    LET built == [i \in 1..Len(config.Patterns) |->
                     buildPatternEncoder(config.Patterns[i], config.Placeholders)]
    IN  IF \E i \in 1..Len(built) : built[i].err THEN NoEncoder
        ELSE [err |-> FALSE, patterns |-> built]

newPhoneticEncoder(config) ==
    LET built == [i \in 1..Len(config.Patterns) |->
                     buildPatternEncoder(config.Patterns[i], config.Placeholders)]
    IN  IF \E i \in 1..Len(built) : built[i].err THEN NoEncoder
        ELSE [err |-> FALSE, patterns |-> SortLoop(built, 1, 2)]

\* NewPhoneticEncoder on a config with defaults applied
NewPhoneticEncoder(config) ==
    IF Validate(config) # {} THEN NoEncoder ELSE newPhoneticEncoder(config)

\* the runes written right-to-left and then reversed: position i gets digit i
RECURSIVE Digits(_, _, _)
Digits(positions, remaining, i) ==
    IF i = 0 THEN << >>
    ELSE Append(Digits(positions, remaining \div positions[i].base, i - 1),
                positions[i].chars[(remaining % positions[i].base) + 1])

\* the runes in the order they were written: the reversal is left out
PatternEncode_Unreversed(e, number) ==
    IF ~NatLess(number, e.totalCombinations) THEN [err |-> TRUE, word |-> << >>]
    ELSE [err |-> FALSE,
          word |-> [i \in 1..Len(e.positions) |->
                      Digits(e.positions, number, Len(e.positions))[Len(e.positions) + 1 - i]]]

PatternEncode(e, number) ==
    IF ~NatLess(number, e.totalCombinations) THEN [err |-> TRUE, word |-> << >>]
    ELSE [err |-> FALSE, word |-> Digits(e.positions, number, Len(e.positions))]

\* index of the rune in the alphabet (0-based), -1 when absent
charIndex(chars, r) ==
    IF \E idx \in 1..Len(chars) : chars[idx] = r
    THEN Min({ idx \in 1..Len(chars) : chars[idx] = r }) - 1
    ELSE -1

\* the product of the bases right of position i, wrapping as Go's int does
RECURSIVE multiplier(_, _)
multiplier(positions, j) ==
    IF j > Len(positions) THEN W64(1)
    ELSE MulSmall(multiplier(positions, j + 1), positions[j].base)

\* result += charIndex * multiplier, position by position
RECURSIVE DecodeSum(_, _, _)
DecodeSum(positions, runes, i) ==
    IF i > Len(runes) THEN W64(0)
    ELSE AddW(MulSmall(multiplier(positions, i + 1),
                       charIndex(positions[i].chars, runes[i])),
              DecodeSum(positions, runes, i + 1))

\* the decoded value is a 64-bit word (limbs); W64(0) on error
\* a rune that is not in its position's class is not reported
PatternDecode_Unchecked(e, word) ==
    IF Len(word) # Len(e.positions) THEN [err |-> TRUE, val |-> W64(0)]
    ELSE IF \E i \in 1..Len(word) : charIndex(e.positions[i].chars, word[i]) = -1
    THEN [err |-> FALSE, val |-> W64(0)]
    ELSE [err |-> FALSE, val |-> DecodeSum(e.positions, word, 1)]

PatternDecode(e, word) ==
    IF Len(word) # Len(e.positions) THEN [err |-> TRUE, val |-> W64(0)]
    ELSE IF \E i \in 1..Len(word) : charIndex(e.positions[i].chars, word[i]) = -1
    THEN [err |-> TRUE, val |-> W64(0)]
    ELSE [err |-> FALSE, val |-> DecodeSum(e.positions, word, 1)]

\* the last codec that fits instead of the first
EncodeCodec_Last(e, number) ==
    IF \E i \in 1..Len(e.patterns) : NatLess(number, e.patterns[i].totalCombinations)
    THEN Max({ i \in 1..Len(e.patterns) :
                 NatLess(number, e.patterns[i].totalCombinations) })
    ELSE 0

\* index of the codec PhoneticEncoder.Encode delegates to, 0 when none fits
EncodeCodec(e, number) ==
    IF \E i \in 1..Len(e.patterns) : NatLess(number, e.patterns[i].totalCombinations)
    THEN Min({ i \in 1..Len(e.patterns) :
                 NatLess(number, e.patterns[i].totalCombinations) })
    ELSE 0

\* panic is the index-out-of-range of e.patterns[len(e.patterns)-1]
PhoneticEncode(e, number) ==
    IF number < 0 THEN [err |-> TRUE, word |-> << >>, panic |-> FALSE]
    ELSE IF EncodeCodec(e, number) # 0
    THEN [err |-> PatternEncode(e.patterns[EncodeCodec(e, number)], number).err,
          word |-> PatternEncode(e.patterns[EncodeCodec(e, number)], number).word,
          panic |-> FALSE]
    ELSE [err |-> TRUE, word |-> << >>, panic |-> Len(e.patterns) = 0]

\* index of the codec PhoneticEncoder.Decode delegates to, 0 when none matches
DecodeCodec(e, word) ==
    IF \E i \in 1..Len(e.patterns) : Len(word) = e.patterns[i].length
    THEN Min({ i \in 1..Len(e.patterns) : Len(word) = e.patterns[i].length })
    ELSE 0

PhoneticDecode(e, word) ==
    IF DecodeCodec(e, word) # 0
    THEN PatternDecode(e.patterns[DecodeCodec(e, word)], word)
    ELSE [err |-> TRUE, val |-> W64(0)]

\* the decoding direction is left out
CheckOutcome_EncodeOnly(p, check) ==
    IF PhoneticEncode(p, check.Input).panic THEN "panic"
    ELSE IF PhoneticEncode(p, check.Input).err THEN "encode-failed"
    ELSE IF PhoneticEncode(p, check.Input).word # check.Output THEN "encode-mismatch"
    ELSE "ok"

\* the outcome of one preflight check: "ok", or the step that failed
CheckOutcome(p, check) ==
    IF PhoneticEncode(p, check.Input).panic THEN "panic"
    ELSE IF PhoneticEncode(p, check.Input).err THEN "encode-failed"
    ELSE IF PhoneticEncode(p, check.Input).word # check.Output THEN "encode-mismatch"
    ELSE IF PhoneticDecode(p, check.Output).err THEN "decode-failed"
    ELSE IF PhoneticDecode(p, check.Output).val # W64(check.Input) THEN "decode-mismatch"
    ELSE "ok"

\* p.ValidatePreflight(checks): index is the position of the check that failed
ValidatePreflight(p, checks) ==
    IF Len(checks) = 0 THEN [kind |-> "no-checks", index |-> 0]
    ELSE IF \A i \in 1..Len(checks) : CheckOutcome(p, checks[i]) = "ok"
    THEN [kind |-> "ok", index |-> 0]
    ELSE LET i == Min({ k \in 1..Len(checks) : CheckOutcome(p, checks[k]) # "ok" })
         IN  [kind |-> CheckOutcome(p, checks[i]), index |-> i]

\* e.GetSmallestPatternCapacity(): the largest number of the first codec
GetSmallestPatternCapacity(e) ==
    IF Len(e.patterns) = 0 THEN 0
    ELSE ToNat(e.patterns[1].totalCombinations) - 1

\* addSuggestion: the table with one more assertion, or the error of Encode
addSuggestion(suggestions, e, input, comment) ==
    IF PhoneticEncode(e, input).err THEN [err |-> TRUE, table |-> suggestions]
    ELSE [err |-> FALSE,
          table |-> Append(suggestions,
                           [Input |-> input, Output |-> PhoneticEncode(e, input).word,
                            Comment |-> comment])]

\* the upper boundary is left out
GenerateSuggestions_LowerOnly(e) ==
    IF GetSmallestPatternCapacity(e) = 0 THEN [err |-> TRUE, table |-> << >>]
    ELSE addSuggestion(<< >>, e, 0, "Lower boundary")

\* preflight.GenerateSuggestions(encoder), encoder not nil
GenerateSuggestions(e) ==
    IF GetSmallestPatternCapacity(e) = 0 THEN [err |-> TRUE, table |-> << >>]
    ELSE LET lower == addSuggestion(<< >>, e, 0, "Lower boundary")
         IN  IF lower.err THEN [err |-> TRUE, table |-> << >>]
             ELSE LET upper == addSuggestion(lower.table, e, GetSmallestPatternCapacity(e),
                                             "Upper boundary (single word)")
                  IN  IF upper.err THEN [err |-> TRUE, table |-> << >>] ELSE upper

(***************************************************************************)
(* Configuration aggregate.                                                *)
(***************************************************************************)
\* the lower bound of BitWidth is not checked
ShuffleValidate_NoLowerBound(sc) ==
    IF sc.BitWidth > 64 THEN "bitwidth-out-of-range"
    ELSE IF sc.Rounds < 3 \/ sc.Rounds > 10 THEN "rounds-out-of-range"
    ELSE "ok"

\* ShuffleConfig.Validate
ShuffleValidate(sc) ==
    IF sc.BitWidth < 4 \/ sc.BitWidth > 64 THEN "bitwidth-out-of-range"
    ELSE IF sc.Rounds < 3 \/ sc.Rounds > 10 THEN "rounds-out-of-range"
    ELSE "ok"

\* ExpectedBitWidth is not compared with the derived width
ConfigValidate_NoPreflight(c) ==
    LET pc == ApplyDefaults(c.Phonetic)
        c1 == [c EXCEPT !.Phonetic = pc]
        encoder == NewPhoneticEncoder(pc)
        bitWidth == calculateRequiredBitWidth(
                        encoder.patterns[Len(encoder.patterns)].totalCombinations)
        c2 == [c1 EXCEPT !.Shuffle.BitWidth = bitWidth]
    IN  IF Validate(pc) # {} THEN [config |-> c1, err |-> "phonetic-invalid"]
        ELSE IF encoder.err THEN [config |-> c1, err |-> "encoder-failed"]
        ELSE IF Len(encoder.patterns) = 0 THEN [config |-> c1, err |-> "no-patterns"]
        ELSE [config |-> c2, err |-> ShuffleValidate(c2.Shuffle)]

\* the derived width is not assigned: the Shuffle section is validated with
\* the BitWidth it came with
ConfigValidate_WidthKept(c) ==
    LET pc == ApplyDefaults(c.Phonetic)
        c1 == [c EXCEPT !.Phonetic = pc]
        encoder == NewPhoneticEncoder(pc)
    IN  IF Validate(pc) # {} THEN [config |-> c1, err |-> "phonetic-invalid"]
        ELSE IF encoder.err THEN [config |-> c1, err |-> "encoder-failed"]
        ELSE IF Len(encoder.patterns) = 0 THEN [config |-> c1, err |-> "no-patterns"]
        ELSE [config |-> c1, err |-> ShuffleValidate(c1.Shuffle)]

\* Config.Validate: the config as the call leaves it, and the error returned.
\* Shuffle.BitWidth is assigned before the last two checks are made.
ConfigValidate(c) ==
    LET pc == ApplyDefaults(c.Phonetic)
        c1 == [c EXCEPT !.Phonetic = pc]
        encoder == NewPhoneticEncoder(pc)
        bitWidth == calculateRequiredBitWidth(
                        encoder.patterns[Len(encoder.patterns)].totalCombinations)
        c2 == [c1 EXCEPT !.Shuffle.BitWidth = bitWidth]
    IN  IF Validate(pc) # {} THEN [config |-> c1, err |-> "phonetic-invalid"]
        ELSE IF encoder.err THEN [config |-> c1, err |-> "encoder-failed"]
        ELSE IF Len(encoder.patterns) = 0 THEN [config |-> c1, err |-> "no-patterns"]
        ELSE IF c.ExpectedBitWidth > 0 /\ bitWidth # c.ExpectedBitWidth
        THEN [config |-> c2, err |-> "bitwidth-mismatch"]
        ELSE [config |-> c2, err |-> ShuffleValidate(c2.Shuffle)]

(***************************************************************************)
(* The configurations a caller may hand to the library.                    *)
(***************************************************************************)
Consonants == << "b", "d", "k", "f" >>
Vowels == << "a", "e", "o", "i" >>

\* the rest of the class map, next to C and V
ExtraClasses ==
    { << >>,
      (CustomX :> << "g" >>),
      (CustomX :> << "g", "h" >>),
      (CustomX :> << >>),
      (Liquid :> << "l", "m", "n" >>),
      (Liquid :> << "b", "m", "n" >>),
      (Euro :> << "u", "w" >>) }

PlaceholderMaps ==
    { << >> } \cup
    { (Consonant :> SubSeq(Consonants, 1, cs)) @@ (Vowel :> SubSeq(Vowels, 1, vs)) @@ extra :
        cs \in 2..MaxClassSize, vs \in 1..MinCharsForVowel, extra \in ExtraClasses }

PatternPool ==
    { << "C", "V", "C" >>,
      << "C", "V", "L" >>,
      << "V", "C", "X" >>,
      << "C", "V", "EUR" >>,
      << "C", "V", "C", "V" >>,
      << "C", "V", "C", "X", "X" >> }

\* the lists of at most n pairwise different patterns of the pool
RECURSIVE PatternLists(_)
PatternLists(n) ==
    IF n = 0 THEN { << >> }
    ELSE PatternLists(n - 1) \cup
         UNION { { Append(l, p) : p \in PatternPool \ { l[i] : i \in 1..Len(l) } } :
                 l \in { m \in PatternLists(n - 1) : Len(m) = n - 1 } }

\* round counts and expected widths set through WithRounds / WithExpectedBitWidth,
\* and the BitWidth the Shuffle section holds before validation: 0, or the 32
\* of the field's default tag
ShuffleOptions ==
    { [rounds |-> 0, expected |-> 0, bitWidth |-> 0],
      [rounds |-> 3, expected |-> 0, bitWidth |-> 32],
      [rounds |-> 3, expected |-> 5, bitWidth |-> 0],
      [rounds |-> 3, expected |-> -1, bitWidth |-> 0],
      [rounds |-> 10, expected |-> 0, bitWidth |-> 32],
      [rounds |-> 11, expected |-> 0, bitWidth |-> 0] }

(***************************************************************************)
(* State.                                                                  *)
(***************************************************************************)
VARIABLES
    config,     \* the Config value: Phonetic, Shuffle, ExpectedBitWidth
    valid,      \* Config.Validate has returned nil for this config value
    encoder,    \* the PhoneticEncoder built last, with how it was built
    shuffler,   \* the FeistelShuffler built last
    last,       \* the last call made and what it returned
    calls       \* the call each goroutine is making on the shared objects

vars == << config, valid, encoder, shuffler, last, calls >>

Goroutines == 1..MaxGoroutines

\* a goroutine that is in no call
Idle == [pc |-> "idle", op |-> "", arg |-> 0, word |-> << >>, i |-> 0,
         halves |-> << 0, 0 >>, res |-> << >>]

Result(op) ==
    [op |-> op, err |-> FALSE, panic |-> FALSE, kind |-> "ok", detail |-> NoError,
     num |-> 0, word |-> << >>, val |-> W64(0), codec |-> 0, exact |-> FALSE,
     arg |-> 0, checks |-> << >>]

NoPhoneticEncoder == [src |-> "none", err |-> TRUE, patterns |-> << >>]
NoFeistelShuffler == [src |-> "none"] @@ NoShuffler

\* the configuration of Test_newPhoneticEncoder, "multiple patterns sorted by
\* totalCombinations"
SortedPatternsConfig ==
    [Patterns |-> << << "V", "C", "V" >>,
                     << "C", "X", "X", "X", "C" >>,
                     << "V", "C", "V", "V", "C", "V", "V" >> >>,
     Placeholders |-> (Vowel :> << "a", "e", "o", "i" >>)
                      @@ (Consonant :> << "b", "d" >>)
                      @@ (CustomX :> << "g" >>)]

\* "different pattern lengths with identical total combinations"
IdenticalCombinationsConfig ==
    [Patterns |-> << << "C", "V", "C" >>, << "C", "V", "C", "X", "X" >> >>,
     Placeholders |-> (Vowel :> << "a", "e", "o" >>)
                      @@ (Consonant :> << "b", "d", "k" >>)
                      @@ (CustomX :> << "g" >>)]

\* "empty patterns"
EmptyPatternsConfig ==
    [Patterns |-> << >>,
     Placeholders |-> (Vowel :> << "a", "e", "o" >>)
                      @@ (Consonant :> << "b", "d", "k" >>)]

\* TestConfig_PreflightAssertion: 4 * 2 * 4 = 32 combinations
PreflightConfig ==
    [Patterns |-> << << "C", "V", "C" >> >>,
     Placeholders |-> (Consonant :> << "b", "c", "d", "x" >>)
                      @@ (Vowel :> << "a", "e" >>)]

\* two patterns whose third classes share "l"; no pattern uses both classes
SharedAcrossPatternsConfig ==
    [Patterns |-> << << "C", "V", "L" >>, << "C", "V", "C", "X", "X" >> >>,
     Placeholders |-> (Consonant :> << "b", "d", "k" >>)
                      @@ (Vowel :> << "a", "e" >>)
                      @@ (Liquid :> << "l", "m", "n" >>)
                      @@ (CustomX :> << "l", "r" >>)]

\* newPhoneticEncoder is unexported: it is called by NewPhoneticEncoder and,
\* directly, by the package's tests with these configurations
TestConfigs ==
    { SortedPatternsConfig, IdenticalCombinationsConfig, EmptyPatternsConfig }

\* two classes of one pattern with a duplicate character each
TwoDuplicatesConfig ==
    [Patterns |-> << << "C", "V", "C" >> >>,
     Placeholders |-> (Consonant :> << "b", "d", "b" >>)
                      @@ (Vowel :> << "a", "e", "a" >>)]

PhoneticConfigs ==
    TestConfigs \cup { PreflightConfig, SharedAcrossPatternsConfig, TwoDuplicatesConfig } \cup
    { [Patterns |-> patterns, Placeholders |-> placeholders] :
        patterns \in PatternLists(MaxPatterns), placeholders \in PlaceholderMaps }

Init ==
    /\ \E phonetic \in PhoneticConfigs, opt \in ShuffleOptions :
          config = [Phonetic |-> phonetic,
                    Shuffle |-> [BitWidth |-> opt.bitWidth, Rounds |-> opt.rounds,
                                 Seed |-> 0],
                    ExpectedBitWidth |-> opt.expected]
    /\ valid = FALSE
    /\ encoder = NoPhoneticEncoder
    /\ shuffler = NoFeistelShuffler
    /\ last = Result("init")
    /\ calls = [g \in Goroutines |-> Idle]

(***************************************************************************)
(* Calls.                                                                  *)
(***************************************************************************)
\* A run exercises either a shuffler constructed on its own or the
\* configuration pipeline; validation comes before anything is built.
NothingBuilt == encoder.src = "none" /\ shuffler.src = "none"

\* the Shuffle section and ExpectedBitWidth are as NewConfig leaves them: the
\* phonetic section and the shuffler are used on their own from such a config
ShuffleUntouched == config.Shuffle.Rounds = 0 /\ config.ExpectedBitWidth = 0

\* Encode and Decode change neither object: a run makes its calls on an
\* object after constructing it, before it turns to the other object
OnEncoder == last.op \in { "NewPhoneticEncoder", "newPhoneticEncoder", "Encode", "Decode" }
OnShuffler == last.op \in { "NewFeistelShuffler", "ShufflerEncode", "ShufflerDecode" }

\* The encoder does not read the Shuffle section: it is built from a config
\* that Config.Validate accepted, or from one whose Shuffle section and
\* ExpectedBitWidth are as NewConfig leaves them.
EncoderMayBeBuilt ==
    /\ encoder.src = "none"
    /\ shuffler.src # "call"
    /\ valid \/ ShuffleUntouched

\* pc.Validate(): writes the defaults into the config, returns the first error
PhonidConfigValidate ==
    LET pc == ApplyDefaults(config.Phonetic)
    IN  /\ NothingBuilt
        /\ ShuffleUntouched
        /\ config' = [config EXCEPT !.Phonetic = pc]
        /\ \E e \in (IF Validate(pc) = {} THEN { NoError } ELSE Validate(pc)) :
              last' = [Result("Validate") EXCEPT !.err = (e # NoError),
                                                 !.kind = e.kind, !.detail = e]
        /\ UNCHANGED << valid, encoder, shuffler, calls >>

\* c.Validate()
ConfigValidateCall ==
    LET r == ConfigValidate(config)
    IN  /\ NothingBuilt
        /\ config' = r.config
        /\ valid' = (r.err = "ok")
        /\ last' = [Result("ConfigValidate") EXCEPT !.err = (r.err # "ok"),
                                                    !.kind = r.err]
        /\ UNCHANGED << encoder, shuffler, calls >>

\* NewPhoneticEncoder(config): validates (and so applies defaults), then builds
NewPhoneticEncoderCall ==
    LET pc == ApplyDefaults(config.Phonetic)
        e == NewPhoneticEncoder(pc)
    IN  /\ EncoderMayBeBuilt
        /\ config' = [config EXCEPT !.Phonetic = pc]
        /\ encoder' = IF e.err THEN NoPhoneticEncoder ELSE [src |-> "validated"] @@ e
        /\ last' = [Result("NewPhoneticEncoder") EXCEPT !.err = e.err]
        /\ UNCHANGED << valid, shuffler, calls >>

\* newPhoneticEncoder(config): the internal constructor, no validation
newPhoneticEncoderCall ==
    LET e == newPhoneticEncoder(config.Phonetic)
    IN  /\ EncoderMayBeBuilt
        /\ config.Phonetic \in TestConfigs
        /\ encoder' = IF e.err THEN NoPhoneticEncoder ELSE [src |-> "internal"] @@ e
        /\ last' = [Result("newPhoneticEncoder") EXCEPT !.err = e.err]
        /\ UNCHANGED << config, valid, shuffler, calls >>

\* the numbers handed to Encode: the boundaries of every codec, and a few more
NumbersTried(e) ==
    { -1, 0 } \cup
    UNION { { ToNat(e.patterns[i].totalCombinations) - 1,
              ToNat(e.patterns[i].totalCombinations) } :
            i \in { k \in 1..Len(e.patterns) : IsSmall(e.patterns[k].totalCombinations) } }

\* e.Encode(number)
EncodeCall ==
    /\ ~encoder.err
    /\ OnEncoder
    /\ \E number \in NumbersTried(encoder) :
          LET r == PhoneticEncode(encoder, number)
          IN  last' = [Result("Encode") EXCEPT !.num = number, !.err = r.err,
                                               !.panic = r.panic, !.word = r.word,
                                               !.codec = EncodeCodec(encoder, number)]
    /\ UNCHANGED << config, valid, encoder, shuffler, calls >>

\* the words handed to Decode: the word just encoded, that word lengthened,
\* that word rotated by one position, and the empty word
WordsTried(w) ==
    { w, << >> } \cup
    (IF w = << >> THEN {}
     ELSE { Append(w, w[1]), Append(Tail(w), w[1]) })

\* e.Decode(word)
DecodeCall ==
    /\ ~encoder.err
    /\ last.op = "Encode"
    /\ ~last.panic
    /\ \E word \in WordsTried(last.word) :
          LET r == PhoneticDecode(encoder, word)
          IN  last' = [Result("Decode") EXCEPT !.num = last.num, !.word = word,
                                               !.err = r.err, !.val = r.val,
                                               !.codec = DecodeCodec(encoder, word),
                                               !.exact = (~last.err /\ word = last.word)]
    /\ UNCHANGED << config, valid, encoder, shuffler, calls >>

\* the assertions handed to ValidatePreflight: the lower boundary with its
\* word, the upper boundary of the smallest codec with the word of the lower
\* boundary, and the number after that boundary with its word
ChecksTried(e) ==
    { [Input |-> 0, Output |-> PhoneticEncode(e, 0).word],
      [Input |-> ToNat(e.patterns[1].totalCombinations) - 1,
       Output |-> PhoneticEncode(e, 0).word],
      [Input |-> ToNat(e.patterns[1].totalCombinations),
       Output |-> PhoneticEncode(e, ToNat(e.patterns[1].totalCombinations)).word] }

\* the lists of at most n assertions
RECURSIVE CheckLists(_, _)
CheckLists(e, n) ==
    IF n = 0 THEN { << >> }
    ELSE CheckLists(e, n - 1) \cup
         { Append(l, c) : l \in { m \in CheckLists(e, n - 1) : Len(m) = n - 1 },
                          c \in ChecksTried(e) }

\* p.ValidatePreflight(checks), on the encoder NewPhoneticEncoder just returned
ValidatePreflightCall ==
    /\ ~encoder.err
    /\ last.op = "NewPhoneticEncoder"
    /\ ShuffleUntouched
    /\ IsSmall(encoder.patterns[1].totalCombinations)
    /\ \E checks \in CheckLists(encoder, MaxChecks) :
          LET r == ValidatePreflight(encoder, checks)
          IN  last' = [Result("ValidatePreflight") EXCEPT
                          !.err = (r.kind # "ok"), !.panic = (r.kind = "panic"),
                          !.kind = r.kind, !.codec = r.index, !.checks = checks]
    /\ UNCHANGED << config, valid, encoder, shuffler, calls >>

\* preflight.GenerateSuggestions(encoder): the package gets its encoders from
\* the exported constructor
GenerateSuggestionsCall ==
    /\ ~encoder.err
    /\ last.op = "NewPhoneticEncoder"
    /\ ShuffleUntouched
    /\ IsSmall(encoder.patterns[1].totalCombinations)
    /\ LET r == GenerateSuggestions(encoder)
       IN  last' = [Result("GenerateSuggestions") EXCEPT !.err = r.err, !.checks = r.table]
    /\ UNCHANGED << config, valid, encoder, shuffler, calls >>

\* NewFeistelShuffler(bitWidth, rounds, seed), called on its own; b = 3 and
\* r = -1 are the values just below the accepted ranges
NewFeistelShufflerCall ==
    /\ config.Phonetic = [Patterns |-> << >>, Placeholders |-> << >>]
    /\ NothingBuilt
    /\ ShuffleUntouched
    /\ \E bitWidth \in (3..MaxBitWidth) \cup {65},
          rounds \in (-1..MaxRoundsTried) \cup {10, 11},
          seed \in 0..MaxSeed :
          LET fs == NewFeistelShuffler(bitWidth, rounds, seed)
          IN  /\ shuffler' = IF fs.err THEN NoFeistelShuffler
                             ELSE [src |-> "call", seed |-> seed] @@ fs
              /\ last' = [Result("NewFeistelShuffler") EXCEPT !.err = fs.err,
                                                              !.num = bitWidth,
                                                              !.arg = rounds]
    /\ UNCHANGED << config, valid, encoder, calls >>

\* NewFeistelShuffler with the Shuffle section of a validated config
NewFeistelShufflerFromConfig ==
    /\ valid
    /\ shuffler.src = "none"
    /\ config.Shuffle.BitWidth <= MaxBitWidth
    /\ LET fs == NewFeistelShuffler(config.Shuffle.BitWidth, config.Shuffle.Rounds,
                                    config.Shuffle.Seed)
       IN  /\ shuffler' = IF fs.err THEN NoFeistelShuffler
                          ELSE [src |-> "config", seed |-> config.Shuffle.Seed] @@ fs
           /\ last' = [Result("NewFeistelShuffler") EXCEPT !.err = fs.err,
                                                           !.num = config.Shuffle.BitWidth,
                                                           !.arg = config.Shuffle.Rounds]
    /\ UNCHANGED << config, valid, encoder, calls >>

\* the values handed to the shuffler: both ends of its domain, the first value
\* with the top bit set, and the first value outside the domain
ValuesTried(fs) ==
    { 0, 1, Pow2(fs.bitWidth - 1), Pow2(fs.bitWidth) - 1, Pow2(fs.bitWidth) }

\* fs.Encode(input)
ShufflerEncodeCall ==
    /\ ~shuffler.err
    /\ OnShuffler
    /\ \E input \in ValuesTried(shuffler) :
          LET r == ShufflerEncode(shuffler, input)
          IN  last' = [Result("ShufflerEncode") EXCEPT !.num = input, !.err = r.err,
                                                       !.val = W64(r.val)]
    /\ UNCHANGED << config, valid, encoder, shuffler, calls >>

\* fs.Decode(encoded): of the value Encode returned and, when Encode refused
\* its input, of that input
ShufflerDecodeCall ==
    /\ ~shuffler.err
    /\ last.op = "ShufflerEncode"
    /\ \E encoded \in { ToNat(last.val) } \cup (IF last.err THEN { last.num } ELSE {}) :
          LET r == ShufflerDecode(shuffler, encoded)
          IN  last' = [Result("ShufflerDecode") EXCEPT !.num = last.num, !.err = r.err,
                                                       !.val = W64(r.val),
                                                       !.arg = encoded,
                                                       !.exact = ~last.err]
    /\ UNCHANGED << config, valid, encoder, shuffler, calls >>

Next ==
    \/ PhonidConfigValidate
    \/ ConfigValidateCall
    \/ NewPhoneticEncoderCall
    \/ newPhoneticEncoderCall
    \/ EncodeCall
    \/ DecodeCall
    \/ NewFeistelShufflerCall
    \/ NewFeistelShufflerFromConfig
    \/ ShufflerEncodeCall
    \/ ShufflerDecodeCall
    \/ ValidatePreflightCall
    \/ GenerateSuggestionsCall

Spec == Init /\ [][Next]_vars

(***************************************************************************)
(* Concurrent callers.  One PhoneticEncoder and one FeistelShuffler are    *)
(* shared by the goroutines; each goroutine makes one call, and a step of  *)
(* a call is one pass of a loop of the method.  A step is given the shared *)
(* instance and the goroutine's frame and yields both as the code leaves   *)
(* them.                                                                   *)
(***************************************************************************)
\* the range check and the split of FeistelShuffler.Encode / Decode
FeistelEnter(fs, f) ==
    IF fs.bitWidth # 64 /\ f.arg >= Pow2(fs.bitWidth)
    THEN [inst |-> fs,
          frame |-> [f EXCEPT !.pc = "done", !.res = [err |-> TRUE, val |-> 0]]]
    ELSE [inst |-> fs,
          frame |-> [f EXCEPT !.pc = "rounds", !.halves = Split(fs, f.arg),
                              !.i = IF f.op = "ShufflerEncode" THEN 1 ELSE fs.rounds]]

\* the round key is taken off the shared slice instead of being indexed
FeistelRound_KeysConsumed(fs, f) ==
    [inst |-> [fs EXCEPT !.roundKeys = Tail(fs.roundKeys) \o << Head(fs.roundKeys) >>],
     frame |-> IF f.op = "ShufflerEncode"
               THEN [f EXCEPT !.halves = EncodeRound(fs, f.halves, 1), !.i = f.i + 1]
               ELSE [f EXCEPT !.halves = DecodeRound(fs, f.halves, 1), !.i = f.i - 1]]

\* one pass of the loop over the rounds: fs.roundKeys[i] and fs.mask are read
FeistelRound(fs, f) ==
    [inst |-> fs,
     frame |-> IF f.op = "ShufflerEncode"
               THEN [f EXCEPT !.halves = EncodeRound(fs, f.halves, f.i), !.i = f.i + 1]
               ELSE [f EXCEPT !.halves = DecodeRound(fs, f.halves, f.i), !.i = f.i - 1]]

\* return (left << fs.halfBits) | right, nil
FeistelReturn(fs, f) ==
    [inst |-> fs,
     frame |-> [f EXCEPT !.pc = "done",
                         !.res = [err |-> FALSE, val |-> Combine(fs, f.halves)]]]

\* the codec e.patterns[i] is the one the loop of Encode / Decode delegates to
CodecMatches(e, f) ==
    IF f.op = "Encode" THEN NatLess(f.arg, e.patterns[f.i].totalCombinations)
    ELSE Len(f.word) = e.patterns[f.i].length

\* one pass of the loop over e.patterns, or the error after the loop
EncoderScan(e, f) ==
    IF f.i > Len(e.patterns)
    THEN [inst |-> e,
          frame |-> [f EXCEPT !.pc = "done",
                              !.res = IF f.op = "Encode"
                                      THEN [err |-> TRUE, word |-> << >>,
                                            panic |-> Len(e.patterns) = 0]
                                      ELSE [err |-> TRUE, val |-> W64(0)]]]
    ELSE IF CodecMatches(e, f) THEN [inst |-> e, frame |-> [f EXCEPT !.pc = "codec"]]
    ELSE [inst |-> e, frame |-> [f EXCEPT !.i = f.i + 1]]

\* return pattern.Encode(number) / pattern.Decode(word)
EncoderDelegate(e, f) ==
    [inst |-> e,
     frame |-> [f EXCEPT !.pc = "done",
                         !.res = IF f.op = "Encode"
                                 THEN [err |-> PatternEncode(e.patterns[f.i], f.arg).err,
                                       word |-> PatternEncode(e.patterns[f.i], f.arg).word,
                                       panic |-> FALSE]
                                 ELSE PatternDecode(e.patterns[f.i], f.word)]]

\* the shared objects: the encoder of a validated config with two patterns and
\* a shuffler of width 5, without rounds or with two
InitShared ==
    /\ config = [Phonetic |-> SharedAcrossPatternsConfig,
                 Shuffle |-> [BitWidth |-> 0, Rounds |-> 0, Seed |-> 0],
                 ExpectedBitWidth |-> 0]
    /\ valid = FALSE
    /\ encoder = [src |-> "validated"] @@ NewPhoneticEncoder(SharedAcrossPatternsConfig)
    /\ \E rounds \in { 0, 2 } :
          shuffler = [src |-> "call", seed |-> 1] @@ NewFeistelShuffler(5, rounds, 1)
    /\ last = Result("init")
    /\ calls = [g \in Goroutines |-> Idle]

\* go fs.Encode(x) / go fs.Decode(x)
GoShuffler(g) ==
    /\ calls[g].pc = "idle"
    /\ \E op \in { "ShufflerEncode", "ShufflerDecode" },
          x \in { 1, MaxValue(shuffler), MaxValue(shuffler) + 1 } :
          calls' = [calls EXCEPT ![g] = [Idle EXCEPT !.pc = "called", !.op = op, !.arg = x]]
    /\ UNCHANGED << config, valid, encoder, shuffler, last >>

\* go e.Encode(n) / go e.Decode(w)
GoEncoder(g) ==
    /\ calls[g].pc = "idle"
    /\ \/ \E n \in { 0, ToNat(encoder.patterns[1].totalCombinations) } :
             calls' = [calls EXCEPT ![g] = [Idle EXCEPT !.pc = "scan", !.op = "Encode",
                                                       !.arg = n, !.i = 1]]
       \/ \E w \in { PhoneticEncode(encoder, 0).word, << >> } :
             calls' = [calls EXCEPT ![g] = [Idle EXCEPT !.pc = "scan", !.op = "Decode",
                                                       !.word = w, !.i = 1]]
    /\ UNCHANGED << config, valid, encoder, shuffler, last >>

ShufflerEnterStep(g) ==
    /\ calls[g].pc = "called"
    /\ shuffler' = FeistelEnter(shuffler, calls[g]).inst
    /\ calls' = [calls EXCEPT ![g] = FeistelEnter(shuffler, calls[g]).frame]
    /\ UNCHANGED << config, valid, encoder, last >>

ShufflerRoundStep(g) ==
    /\ calls[g].pc = "rounds"
    /\ calls[g].i \in 1..shuffler.rounds
    /\ shuffler' = FeistelRound(shuffler, calls[g]).inst
    /\ calls' = [calls EXCEPT ![g] = FeistelRound(shuffler, calls[g]).frame]
    /\ UNCHANGED << config, valid, encoder, last >>

ShufflerReturnStep(g) ==
    /\ calls[g].pc = "rounds"
    /\ calls[g].i \notin 1..shuffler.rounds
    /\ shuffler' = FeistelReturn(shuffler, calls[g]).inst
    /\ calls' = [calls EXCEPT ![g] = FeistelReturn(shuffler, calls[g]).frame]
    /\ UNCHANGED << config, valid, encoder, last >>

EncoderScanStep(g) ==
    /\ calls[g].pc = "scan"
    /\ encoder' = EncoderScan(encoder, calls[g]).inst
    /\ calls' = [calls EXCEPT ![g] = EncoderScan(encoder, calls[g]).frame]
    /\ UNCHANGED << config, valid, shuffler, last >>

EncoderDelegateStep(g) ==
    /\ calls[g].pc = "codec"
    /\ encoder' = EncoderDelegate(encoder, calls[g]).inst
    /\ calls' = [calls EXCEPT ![g] = EncoderDelegate(encoder, calls[g]).frame]
    /\ UNCHANGED << config, valid, shuffler, last >>

NextShared ==
    \/ \E g \in Goroutines : GoShuffler(g)
    \/ \E g \in Goroutines : GoEncoder(g)
    \/ \E g \in Goroutines : ShufflerEnterStep(g)
    \/ \E g \in Goroutines : ShufflerRoundStep(g)
    \/ \E g \in Goroutines : ShufflerReturnStep(g)
    \/ \E g \in Goroutines : EncoderScanStep(g)
    \/ \E g \in Goroutines : EncoderDelegateStep(g)

SpecShared == InitShared /\ [][NextShared]_vars

(***************************************************************************)
(* Long patterns and large classes: the capacities of the codecs as        *)
(* buildPatternEncoder computes them, for patterns of every allowed length.*)
(***************************************************************************)
WideConsonants ==
    << "b", "c", "d", "f", "g", "h", "j", "k", "l", "m", "n", "p", "q", "r", "s", "t" >>

\* the sizes of the consonant class and of the vowel class
WideConsonantSizes == { 3, 4, 8, 16 }
WideVowelSizes == { 2, 3, 4 }

\* the pattern CVCV... of the given length
Alternating(length) == [i \in 1..length |-> IF i % 2 = 1 THEN "C" ELSE "V"]

WideConfigs ==
    { [Patterns |-> << Alternating(length) >>,
       Placeholders |-> (Consonant :> SubSeq(WideConsonants, 1, cs))
                        @@ (Vowel :> SubSeq(Vowels, 1, vs))] :
        length \in AllowedPatternLengths, cs \in WideConsonantSizes, vs \in WideVowelSizes }

\* pattern VCX with two vowels, three consonants and one X: 6 combinations
SmallCapacityConfig ==
    [Patterns |-> << << "V", "C", "X" >> >>,
     Placeholders |-> (Consonant :> << "b", "d", "k" >>)
                      @@ (Vowel :> << "a", "e" >>)
                      @@ (CustomX :> << "g" >>)]

\* the Shuffle section as NewConfig leaves it, or with the least round count
\* ShuffleConfig.Validate accepts
InitCapacity ==
    /\ \E phonetic \in WideConfigs \cup { SmallCapacityConfig }, rounds \in { 0, 3 } :
          config = [Phonetic |-> phonetic,
                    Shuffle |-> [BitWidth |-> 0, Rounds |-> rounds, Seed |-> 0],
                    ExpectedBitWidth |-> 0]
    /\ valid = FALSE
    /\ encoder = NoPhoneticEncoder
    /\ shuffler = NoFeistelShuffler
    /\ last = Result("init")
    /\ calls = [g \in Goroutines |-> Idle]

NextCapacity ==
    \/ PhonidConfigValidate
    \/ ConfigValidateCall
    \/ NewPhoneticEncoderCall
    \/ EncodeCall

SpecCapacity == InitCapacity /\ [][NextCapacity]_vars

(***************************************************************************)
(* Properties.                                                             *)
(***************************************************************************)
\* the codecs of the encoder, and the numbers below the largest capacity
Codecs == 1..Len(encoder.patterns)
Capacity(i) == encoder.patterns[i].totalCombinations
Largest == Capacity(Len(encoder.patterns))
NumbersBelow(w) ==
    IF IsNegative(w) THEN {}
    ELSE IF IsSmall(w) /\ ToNat(w) <= MaxNumber THEN 0..(ToNat(w) - 1)
    ELSE 0..(MaxNumber - 1)

\* an encoder has just been built by NewPhoneticEncoder from a config it accepted
JustValidatedEncoder == last.op = "NewPhoneticEncoder" /\ ~last.err

\* C1: for every config PhonidConfig.Validate accepts and every n below the
\* capacity of the largest pattern, Encode(n) succeeds and Decode of the word
\* returns n without error.
C1_PhoneticRoundTrip ==
    JustValidatedEncoder =>
        \A n \in NumbersBelow(Largest) :
            /\ ~PhoneticEncode(encoder, n).err
            /\ PhoneticDecode(encoder, PhoneticEncode(encoder, n).word)
                 = [err |-> FALSE, val |-> W64(n)]

\* C2: for every shuffler NewFeistelShuffler constructs and every x in
\* [0, 2^b), Decode(Encode(x)) = x.
C2_ShufflerRoundTrip ==
    (last.op = "NewFeistelShuffler" /\ ~last.err) =>
        \A x \in 0..MaxValue(shuffler) :
            \A encoded \in {ShufflerEncode(shuffler, x)} :
                /\ ~encoded.err
                /\ ShufflerDecode(shuffler, encoded.val) = [err |-> FALSE, val |-> x]

\* the encoder and the shuffler of one validated config are both built
PipelineBuilt ==
    /\ valid
    /\ encoder.src = "validated"
    /\ shuffler.src = "config"
    /\ last.op \in {"NewPhoneticEncoder", "NewFeistelShuffler"}

\* C3: for every validated config and every n below the capacity of the largest
\* pattern, the phonetic encoding of the shuffled n succeeds, and unshuffling
\* the decoded word returns n.
C3_ComposedRoundTrip ==
    PipelineBuilt =>
        \A n \in NumbersBelow(Largest) :
            \A shuffled \in {ShufflerEncode(shuffler, n)} :
            LET word == PhoneticEncode(encoder, shuffled.val)
                decoded == PhoneticDecode(encoder, word.word)
            IN  /\ ~shuffled.err
                /\ ~word.err
                /\ ~decoded.err
                /\ IsSmall(decoded.val)
                /\ ShufflerDecode(shuffler, ToNat(decoded.val))
                     = [err |-> FALSE, val |-> n]

\* two patterns of different lengths with one capacity
SameCapacity(pc) ==
    \E i, j \in 1..Len(pc.Patterns) :
        /\ Len(pc.Patterns[i]) # Len(pc.Patterns[j])
        /\ ~buildPatternEncoder(pc.Patterns[i], pc.Placeholders).err
        /\ ~buildPatternEncoder(pc.Patterns[j], pc.Placeholders).err
        /\ buildPatternEncoder(pc.Patterns[i], pc.Placeholders).totalCombinations
             = buildPatternEncoder(pc.Patterns[j], pc.Placeholders).totalCombinations

\* C4: building an encoder from a config in which two patterns of different
\* lengths have the same capacity fails with an error.
C4_DuplicateCapacityRejected ==
    (last.op \in {"NewPhoneticEncoder", "newPhoneticEncoder"}
     /\ SameCapacity(config.Phonetic)) => last.err

JustValidatedConfig == last.op = "ConfigValidate" /\ ~last.err

\* C5 as stated: after Config.Validate succeeds, Shuffle.BitWidth is even
\* whenever it is below 64.
C5_BitWidthEven ==
    JustValidatedConfig =>
        (config.Shuffle.BitWidth < 64 => config.Shuffle.BitWidth % 2 = 0)

\* C5 amended: after Config.Validate succeeds, Shuffle.BitWidth lies in 4..64
\* and is the width derived from the largest capacity, odd or even.
C5_BitWidthInRange ==
    JustValidatedConfig =>
        /\ config.Shuffle.BitWidth \in 4..64
        /\ config.Shuffle.BitWidth =
             calculateRequiredBitWidth(
                 LET e == newPhoneticEncoder(config.Phonetic)
                 IN  e.patterns[Len(e.patterns)].totalCombinations)

\* Config.Validate has accepted a config whose derived width is odd
C5_Witness ==
    JustValidatedConfig /\ config.Shuffle.BitWidth = 5

\* the phonetic section is valid and nothing but the round count can fail
OnlyRoundsMatter(c) ==
    LET pc == ApplyDefaults(c.Phonetic)
        e == NewPhoneticEncoder(pc)
        b == calculateRequiredBitWidth(e.patterns[Len(e.patterns)].totalCombinations)
    IN  /\ Validate(pc) = {}
        /\ ~e.err
        /\ b \in 4..64
        /\ c.ExpectedBitWidth \in {0, b}

\* C6: with a valid phonetic section, Config.Validate accepts every round
\* count in 0..10 and rejects every other.
C6_RoundsZeroToTen ==
    (last.op = "ConfigValidate" /\ OnlyRoundsMatter(config)) =>
        (last.err <=> config.Shuffle.Rounds \notin 0..10)

\* Encode has returned from an encoder that has at least one codec
Encoded == last.op = "Encode" /\ last.num >= 0 /\ Len(encoder.patterns) > 0

\* C7: Encode(n) delegates to the codec with the smallest capacity above n
\* (the codec's own Encode makes the word); when no capacity is above n it
\* returns an error and no word.
C7_SmallestSufficientCodec ==
    Encoded =>
        IF \E i \in Codecs : NatLess(last.num, Capacity(i))
        THEN /\ last.codec \in Codecs
             /\ NatLess(last.num, Capacity(last.codec))
             /\ \A i \in Codecs :
                   NatLess(last.num, Capacity(i))
                     => ~SignedLess(Capacity(i), Capacity(last.codec))
             /\ ~last.err
             /\ last.word = PatternEncode(encoder.patterns[last.codec], last.num).word
        ELSE last.err /\ ~last.panic /\ last.word = << >> /\ last.codec = 0

\* Encode chose a codec that is not the first, and Encode refused a number
C7_Witness ==
    /\ Encoded
    /\ last.codec > 1
    /\ ~last.err
C7_WitnessOutOfRange ==
    /\ Encoded
    /\ last.err
    /\ \A i \in Codecs : ~NatLess(last.num, Capacity(i))

\* the encoder newPhoneticEncoder has built from SortedPatternsConfig
SortedPatternsEncoder ==
    /\ config.Phonetic = SortedPatternsConfig
    /\ encoder.src = "internal"

\* C8 as stated: the config passes validation, the capacities sort as 4, 32,
\* 4096, and 3, 50, 1000 are encoded by VCV, CXXXC, VCVVCVV.
C8_AsStated ==
    SortedPatternsEncoder =>
        /\ Validate(config.Phonetic) = {}
        /\ [i \in Codecs |-> Capacity(i)] = << W64(4), W64(32), W64(4096) >>
        /\ encoder.patterns[EncodeCodec(encoder, 3)].pattern = << "V", "C", "V" >>
        /\ encoder.patterns[EncodeCodec(encoder, 50)].pattern
             = << "C", "X", "X", "X", "C" >>
        /\ encoder.patterns[EncodeCodec(encoder, 1000)].pattern
             = << "V", "C", "V", "V", "C", "V", "V" >>

\* C8 amended: validation rejects the config; built without validation, the
\* codecs sort as CXXXC (4), VCV (32), VCVVCVV (4096), and 3 is encoded by
\* CXXXC, 50 and 1000 by VCVVCVV.
C8_SortedCodecs ==
    SortedPatternsEncoder =>
        /\ Validate(config.Phonetic) # {}
        /\ [i \in Codecs |-> Capacity(i)] = << W64(4), W64(32), W64(4096) >>
        /\ [i \in Codecs |-> encoder.patterns[i].pattern]
             = << << "C", "X", "X", "X", "C" >>, << "V", "C", "V" >>,
                  << "V", "C", "V", "V", "C", "V", "V" >> >>
        /\ EncodeCodec(encoder, 3) = 1
        /\ EncodeCodec(encoder, 50) = 3
        /\ EncodeCodec(encoder, 1000) = 3
        /\ ~PhoneticEncode(encoder, 1000).err

C8_Witness ==
    SortedPatternsEncoder /\ last.op = "newPhoneticEncoder" /\ ~last.err

\* C9: in an encoder built from a config PhonidConfig.Validate accepts, no two
\* codecs have the same length, so at most one codec matches a word's length;
\* a word whose length no codec has is refused.
C9_UniqueLength ==
    /\ JustValidatedEncoder =>
          \A i, j \in Codecs :
              encoder.patterns[i].length = encoder.patterns[j].length => i = j
    /\ (last.op = "Decode" /\ encoder.src = "validated"
        /\ \A i \in Codecs : encoder.patterns[i].length # Len(last.word))
          => last.err

\* the word is made, position by position, of members of the codec's classes
WellFormed(e, word) ==
    /\ Len(word) = e.length
    /\ \A i \in 1..Len(word) :
          word[i] \in { e.positions[i].chars[k] : k \in 1..Len(e.positions[i].chars) }

\* C10: PatternEncoder.Decode(w) succeeds exactly when w has `length` code
\* points and each is a member of its position's class; otherwise it returns
\* an error and the value 0.
C10_PatternDecodeDomain ==
    last.op = "Decode" =>
        \A i \in Codecs :
            LET r == PatternDecode(encoder.patterns[i], last.word)
            IN  /\ ~r.err <=> WellFormed(encoder.patterns[i], last.word)
                /\ r.err => r.val = W64(0)

\* a word of the right length with a valid character at the wrong position
C10_Witness ==
    /\ last.op = "Decode"
    /\ last.err
    /\ last.word # << >>
    /\ \E i \in Codecs :
          /\ Len(last.word) = encoder.patterns[i].length
          /\ ~WellFormed(encoder.patterns[i], last.word)
          /\ \E k \in 1..Len(last.word) :
                charIndex(encoder.patterns[i].positions[k].chars, last.word[1]) # -1

\* the words of first and of last code points of a codec
FirstWord(pe) == [i \in 1..Len(pe.positions) |-> pe.positions[i].chars[1]]
LastWord(pe) == [i \in 1..Len(pe.positions) |-> pe.positions[i].chars[pe.positions[i].base]]

\* Encode has just returned, on an encoder NewPhoneticEncoder built
EncodedByValidated == last.op = "Encode" /\ encoder.src = "validated"

\* C11: on an encoder built from a validated config, Encode(0) is the word of
\* first code points of the smallest codec, and Encode(capacity - 1) is the
\* word of last code points of a codec of that capacity.
C11_FirstAndLastWords ==
    EncodedByValidated =>
        /\ last.num = 0 =>
              ~last.err /\ last.word = FirstWord(encoder.patterns[1])
        /\ \A i \in Codecs :
              (IsSmall(Capacity(i)) /\ last.num = ToNat(Capacity(i)) - 1) =>
                  /\ ~last.err
                  /\ \E j \in Codecs : /\ Capacity(j) = Capacity(i)
                                        /\ last.word = LastWord(encoder.patterns[j])

\* the last word of the second of two codecs of different capacities, a word
\* that does not read the same in both directions
C11_Witness ==
    /\ EncodedByValidated
    /\ Len(encoder.patterns) = 2
    /\ Capacity(1) # Capacity(2)
    /\ IsSmall(Capacity(2))
    /\ last.num = ToNat(Capacity(2)) - 1
    /\ last.word = LastWord(encoder.patterns[2])
    /\ last.word[1] # last.word[Len(last.word)]

\* NewFeistelShuffler has just returned to a caller that chose its arguments;
\* these arguments include the ones a validated config can hold
JustConstructed == last.op = "NewFeistelShuffler" /\ shuffler.src = "call"

\* a shuffler with no rounds has been constructed
NoRounds == ~shuffler.err /\ shuffler.rounds = 0

\* C12: a shuffler with rounds = 0 is the identity on [0, 2^b): Encode(x) = x
\* and Decode(x) = x, for every bit width and seed; the calls made on such a
\* shuffler return their argument.
C12_NoRoundsIdentity ==
    NoRounds =>
        /\ JustConstructed =>
              \A x \in 0..MaxValue(shuffler) :
                  /\ ShufflerEncode(shuffler, x) = [err |-> FALSE, val |-> x]
                  /\ ShufflerDecode(shuffler, x) = [err |-> FALSE, val |-> x]
        /\ (last.op = "ShufflerEncode" /\ last.num <= MaxValue(shuffler)) =>
              ~last.err /\ last.val = W64(last.num)
        /\ (last.op = "ShufflerDecode" /\ last.arg <= MaxValue(shuffler)) =>
              ~last.err /\ last.val = W64(last.arg)

\* Decode has returned the largest value of an odd-width domain unchanged,
\* under a seed other than 0
C12_Witness ==
    /\ NoRounds
    /\ shuffler.bitWidth % 2 = 1
    /\ shuffler.seed = 1
    /\ last.op = "ShufflerDecode"
    /\ last.arg = MaxValue(shuffler)
    /\ last.val = W64(MaxValue(shuffler))

\* what Encode or Decode returned for x fits the domain [0, 2^b) of fs
InDomainOnly(fs, x, r) ==
    /\ r.err <=> x >= Pow2(fs.bitWidth)
    /\ r.err => r.val = 0
    /\ ~r.err => r.val <= MaxValue(fs)

\* C13: a shuffler of bit width b < 64 refuses every x >= 2^b, in Encode and
\* in Decode, returning an error and the value 0; it accepts every x < 2^b,
\* and what Encode returns is at most MaxValue() = 2^b - 1.
C13_OutOfRangeRefused ==
    (~shuffler.err /\ shuffler.bitWidth < 64) =>
        /\ JustConstructed =>
              \A x \in (0..Pow2(shuffler.bitWidth)) \cup { 2 * Pow2(shuffler.bitWidth) } :
                  /\ \A r \in { ShufflerEncode(shuffler, x) } : InDomainOnly(shuffler, x, r)
                  /\ \A r \in { ShufflerDecode(shuffler, x) } :
                        /\ r.err <=> x >= Pow2(shuffler.bitWidth)
                        /\ r.err => r.val = 0
        /\ last.op = "ShufflerEncode" =>
              InDomainOnly(shuffler, last.num, [err |-> last.err, val |-> ToNat(last.val)])
        /\ last.op = "ShufflerDecode" =>
              /\ last.err <=> last.arg >= Pow2(shuffler.bitWidth)
              /\ last.err => last.val = W64(0)

\* Decode has refused 2^b, the value Encode refused before it, on a shuffler
\* that has rounds
C13_Witness ==
    /\ ~shuffler.err
    /\ shuffler.rounds > 0
    /\ last.op = "ShufflerDecode"
    /\ last.num = Pow2(shuffler.bitWidth)
    /\ last.arg = Pow2(shuffler.bitWidth)
    /\ last.err
    /\ last.val = W64(0)

\* NewFeistelShuffler has just returned; last.num and last.arg are the bit
\* width and the round count it was given
Constructed == last.op = "NewFeistelShuffler"

\* C14: NewFeistelShuffler(b, r, seed) returns an error and no shuffler when
\* b < 4, b > 64, r < 0 or r > 10; otherwise it returns a shuffler of width b
\* with exactly r round keys.
C14_ConstructorRanges ==
    Constructed =>
        /\ last.err <=> (last.num < 4 \/ last.num > 64 \/ last.arg < 0 \/ last.arg > 10)
        /\ last.err => shuffler = NoFeistelShuffler
        /\ ~last.err => /\ ~shuffler.err
                        /\ shuffler.bitWidth = last.num
                        /\ shuffler.rounds = last.arg
                        /\ Len(shuffler.roundKeys) = last.arg

\* a shuffler with ten round keys, the most the constructor accepts
C14_Witness ==
    /\ Constructed
    /\ ~last.err
    /\ last.arg = 10
    /\ Len(shuffler.roundKeys) = 10

\* the round count just above the range is refused for an accepted width
C14_WitnessRefused ==
    /\ Constructed
    /\ last.err
    /\ last.num = 4
    /\ last.arg = 11
    /\ shuffler = NoFeistelShuffler

\* 2^b as a 64-bit word, for b in 0..63
Pow2W(b) ==
    [k \in 1..4 |-> IF k = (b \div 16) + 1 THEN Pow2(b % 16) ELSE 0]

\* capacity <= 2^b, for a capacity that is not negative
FitsIn(capacity, b) == capacity = Pow2W(b) \/ UnsignedLess(capacity, Pow2W(b))

\* the least b >= 1 whose domain 2^b holds the capacity (b = 1 for 0 and 1)
LeastWidth(capacity) ==
    Min({ b \in 1..63 : FitsIn(capacity, b) })

\* the bit width Config.Validate derives for the phonetic section of c
DerivedWidth(c) ==
    LeastWidth(newPhoneticEncoder(c.Phonetic).patterns[
                   Len(newPhoneticEncoder(c.Phonetic).patterns)].totalCombinations)

\* C15: after Config.Validate returns success, Shuffle.BitWidth is the least b
\* with 2^b >= the capacity of the largest pattern codec, whatever the field
\* held before the call; so the domain 2^b holds the capacity of every codec.
\* The width computed for a capacity is that least b, and 1 for 0 and 1
\* (compared once, when the config of capacity 32 has been validated).
C15_DerivedBitWidth ==
    JustValidatedConfig =>
        /\ config.Shuffle.BitWidth = DerivedWidth(config)
        /\ \A pe \in { newPhoneticEncoder(config.Phonetic).patterns[i] :
                          i \in 1..Len(config.Phonetic.Patterns) } :
              FitsIn(pe.totalCombinations, config.Shuffle.BitWidth)
        /\ config.Phonetic = PreflightConfig =>
              \A capacity \in 0..MaxNumber :
                  calculateRequiredBitWidth(W64(capacity)) = LeastWidth(W64(capacity))

\* a config that held the default 32 has been validated and holds the width 5
\* of the capacity 32, a power of two
C15_Witness ==
    /\ JustValidatedConfig
    /\ config.Phonetic = PreflightConfig
    /\ config.Shuffle.BitWidth = 5
    /\ config.Shuffle.Rounds = 10

\* Config.Validate has just returned and had derived the bit width
ReachedPreflight ==
    /\ last.op = "ConfigValidate"
    /\ last.kind \notin { "phonetic-invalid", "encoder-failed", "no-patterns" }

\* C16 as stated: Config.Validate fails with the bit-width mismatch exactly
\* when ExpectedBitWidth is non-zero and differs from the derived width.
C16_NonZeroExpectation ==
    ReachedPreflight =>
        (last.kind = "bitwidth-mismatch"
            <=> (config.ExpectedBitWidth # 0
                 /\ config.ExpectedBitWidth # DerivedWidth(config)))

\* C16, amended: Config.Validate fails with the bit-width mismatch exactly
\* when ExpectedBitWidth is positive and differs from the derived width; when
\* it equals the derived width, or is zero or negative, the outcome is that
\* of the checks of the Shuffle section.
C16_PositiveExpectation ==
    ReachedPreflight =>
        /\ last.kind = "bitwidth-mismatch"
               <=> (config.ExpectedBitWidth > 0
                    /\ config.ExpectedBitWidth # DerivedWidth(config))
        /\ last.kind = "bitwidth-mismatch" => last.err
        /\ last.kind # "bitwidth-mismatch" =>
               last.kind = ShuffleValidate(config.Shuffle)

\* an expectation of 5 has failed against a derived width of 7
C16_Witness ==
    /\ ReachedPreflight
    /\ last.kind = "bitwidth-mismatch"
    /\ config.ExpectedBitWidth = 5
    /\ DerivedWidth(config) = 7

\* the expectation of 5 of TestConfig_PreflightAssertion has been met
C16_WitnessMet ==
    /\ ReachedPreflight
    /\ ~last.err
    /\ config.Phonetic = PreflightConfig
    /\ config.ExpectedBitWidth = 5

\* a negative expectation has been passed over
C16_WitnessNegative ==
    /\ ReachedPreflight
    /\ ~last.err
    /\ config.ExpectedBitWidth < 0

\* PhonidConfig.Validate has just returned; config.Phonetic is the config it
\* checked, defaults applied
Validated == last.op = "Validate"

\* the class tags the patterns of the config refer to
Referenced(pc) == UNION { Used(pc.Patterns[i]) : i \in 1..Len(pc.Patterns) }

\* C17 as stated: PhonidConfig.Validate rejects every config in which a
\* referenced class, of whatever tag, has fewer than 2 members.
C17_EveryClassTwoMembers ==
    Validated =>
        ((\E ph \in Referenced(config.Phonetic) \cap DOMAIN config.Phonetic.Placeholders :
             Len(config.Phonetic.Placeholders[ph]) < 2)
         => last.err)

\* C17, amended: PhonidConfig.Validate rejects every config in which V is
\* referenced and has fewer than MinCharsForVowel = 2 members; the size check
\* fails for no other class.
C17_VowelTwoMembers ==
    Validated =>
        /\ (/\ Vowel \in Referenced(config.Phonetic) \cap DOMAIN config.Phonetic.Placeholders
            /\ Len(config.Phonetic.Placeholders[Vowel]) < MinCharsForVowel)
           => last.err
        /\ last.kind = "class-too-small" => last.detail.a = Vowel

\* a config has been rejected for a V of one member
C17_Witness ==
    /\ Validated
    /\ last.kind = "class-too-small"
    /\ Len(config.Phonetic.Placeholders[Vowel]) = 1

\* a config whose pattern refers to an X of one member has been accepted
C17_WitnessSingleMember ==
    /\ Validated
    /\ ~last.err
    /\ CustomX \in Referenced(config.Phonetic)
    /\ Len(config.Phonetic.Placeholders[CustomX]) = 1

\* a config whose pattern refers to an X of no member has been accepted
C17_WitnessNoMember ==
    /\ Validated
    /\ ~last.err
    /\ CustomX \in Referenced(config.Phonetic)
    /\ Len(config.Phonetic.Placeholders[CustomX]) = 0

\* the pattern refers to a complement class of at least 3 members
HasComplement(pattern, placeholders) ==
    \E ph \in Used(pattern) \cap ComplementPlaceholders \cap DOMAIN placeholders :
        Len(placeholders[ph]) >= MinCharsForComplement

\* C18: PhonidConfig.Validate accepts a config only if every pattern itself
\* refers to a complement class (C, L, N, S or F) of at least 3 members; one
\* that is defined but not referred to by the pattern does not count.
C18_ComplementInPattern ==
    (Validated /\ ~last.err) =>
        \A i \in 1..Len(config.Phonetic.Patterns) :
            HasComplement(config.Phonetic.Patterns[i], config.Phonetic.Placeholders)

\* a config has been rejected for a pattern without such a class although the
\* class map defines an L of 3 members
C18_Witness ==
    /\ Validated
    /\ last.kind = "missing-complement"
    /\ Liquid \in DOMAIN config.Phonetic.Placeholders
    /\ Len(config.Phonetic.Placeholders[Liquid]) >= MinCharsForComplement
    /\ Liquid \notin Used(last.detail.pattern)

\* a config whose first pattern has L as its only complement class of 3 members
\* has been accepted
C18_WitnessAccepted ==
    /\ Validated
    /\ ~last.err
    /\ Len(config.Phonetic.Patterns) > 0
    /\ Liquid \in Used(config.Phonetic.Patterns[1])
    /\ Len(config.Phonetic.Placeholders[Consonant]) < MinCharsForComplement

\* every class of the set is defined and shares no code point with another
DefinedAndDisjoint(classes, placeholders) ==
    \A ph \in classes :
        /\ ph \in DOMAIN placeholders
        /\ \A other \in (classes \cap DOMAIN placeholders) \ { ph } :
              ~hasOverlap(placeholders[ph], placeholders[other])

\* C19 as stated: after PhonidConfig.Validate returns success, the classes
\* the patterns of the config refer to are all defined and pairwise disjoint,
\* also when two of them are only ever used in different patterns.
C19_DisjointAcrossPatterns ==
    (Validated /\ ~last.err) =>
        DefinedAndDisjoint(Referenced(config.Phonetic), config.Phonetic.Placeholders)

\* C19, amended: after PhonidConfig.Validate returns success, the classes each
\* pattern refers to are defined and pairwise disjoint within that pattern.
C19_DisjointWithinPattern ==
    (Validated /\ ~last.err) =>
        \A i \in 1..Len(config.Phonetic.Patterns) :
            DefinedAndDisjoint(Used(config.Phonetic.Patterns[i]),
                               config.Phonetic.Placeholders)

\* a config of two patterns has been accepted whose L and X, each used by one
\* of the patterns only, share a code point
C19_Witness ==
    /\ Validated
    /\ ~last.err
    /\ Len(config.Phonetic.Patterns) = 2
    /\ { Liquid, CustomX } \subseteq DOMAIN config.Phonetic.Placeholders
    /\ hasOverlap(config.Phonetic.Placeholders[Liquid],
                  config.Phonetic.Placeholders[CustomX])

\* a config has been rejected for two classes of one pattern that overlap
C19_WitnessRejected ==
    /\ Validated
    /\ last.kind = "class-overlap"
    /\ hasOverlap(config.Phonetic.Placeholders[last.detail.a],
                  config.Phonetic.Placeholders[last.detail.b])

\* the step is a call of PhonidConfig.Validate or of Config.Validate
ValidationStep == last'.op \in { "Validate", "ConfigValidate" }

\* C20 as stated: validation leaves the config value as it was, whether it
\* succeeds or fails.
C20_ConfigUnchanged ==
    [][ValidationStep => config' = config]_vars

\* C20, amended: validation changes the config in three fields only.  Empty
\* Patterns and empty Placeholders are replaced by the defaults; Config.Validate
\* sets Shuffle.BitWidth to the derived width once the encoder is built, also
\* when it then fails.  Rounds, Seed and ExpectedBitWidth keep their values,
\* and no encoder or shuffler is kept.
C20_ConfigChangedByValidation ==
    [][ValidationStep =>
          /\ config'.Phonetic.Patterns =
                 IF Len(config.Phonetic.Patterns) = 0 THEN DefaultPatterns
                 ELSE config.Phonetic.Patterns
          /\ config'.Phonetic.Placeholders =
                 IF DOMAIN config.Phonetic.Placeholders = {} THEN DefaultPlaceholders
                 ELSE config.Phonetic.Placeholders
          /\ config'.Shuffle.Rounds = config.Shuffle.Rounds
          /\ config'.Shuffle.Seed = config.Shuffle.Seed
          /\ config'.ExpectedBitWidth = config.ExpectedBitWidth
          /\ config'.Shuffle.BitWidth =
                 IF last'.op = "Validate"
                    \/ last'.kind \in { "phonetic-invalid", "encoder-failed", "no-patterns" }
                 THEN config.Shuffle.BitWidth
                 ELSE DerivedWidth(config')
          /\ UNCHANGED << encoder, shuffler >>]_vars

\* Config.Validate has succeeded on a config that now holds the default
\* patterns and classes and a width other than the 0 and 32 it may start with
C20_Witness ==
    /\ JustValidatedConfig
    /\ config.Phonetic = [Patterns |-> DefaultPatterns, Placeholders |-> DefaultPlaceholders]
    /\ config.Shuffle.BitWidth \notin { 0, 32 }

\* Config.Validate has failed on the expected width and left the derived
\* width in the config
C20_WitnessFailed ==
    /\ last.op = "ConfigValidate"
    /\ last.kind = "bitwidth-mismatch"
    /\ config.Shuffle.BitWidth = 7

\* ---- C21 ----
\* The errors pc.Validate() can return for one config: the range over the
\* placeholder map visits the classes in an order that varies from run to run.
PossibleErrors(pc) == IF Validate(pc) = {} THEN { NoError } ELSE Validate(pc)

\* C21: validation is deterministic: every run of PhonidConfig.Validate on one
\* config reports the same first violation, so the config just validated has
\* exactly one possible outcome.
C21_SameFirstViolation ==
    Validated =>
        \A e \in PossibleErrors(config.Phonetic) :
            /\ e.kind = last.detail.kind
            /\ e.pattern = last.detail.pattern
            /\ { e.a, e.b } = { last.detail.a, last.detail.b }

\* a validated config for which two different violations can be reported
C21_WitnessTwoOutcomes ==
    /\ Validated
    /\ last.err
    /\ \E e \in PossibleErrors(config.Phonetic) :
          { e.a, e.b } # { last.detail.a, last.detail.b }

\* ---- C22 ----
Preflighted == last.op = "ValidatePreflight"

\* a check passes: Encode(Input) returns Output and Decode(Output) returns Input
Passes(check) ==
    /\ ~PhoneticEncode(encoder, check.Input).err
    /\ PhoneticEncode(encoder, check.Input).word = check.Output
    /\ ~PhoneticDecode(encoder, check.Output).err
    /\ PhoneticDecode(encoder, check.Output).val = W64(check.Input)

\* C22: ValidatePreflight(checks) succeeds exactly when the list is not empty
\* and every check passes in both directions; an empty list yields an error,
\* and otherwise the error is that of the first check that does not pass.
C22_PreflightIffAllPass ==
    Preflighted =>
        /\ ~last.panic
        /\ ~last.err <=> /\ Len(last.checks) > 0
                         /\ \A i \in 1..Len(last.checks) : Passes(last.checks[i])
        /\ last.err /\ Len(last.checks) > 0 =>
              /\ last.codec \in 1..Len(last.checks)
              /\ ~Passes(last.checks[last.codec])
              /\ \A i \in 1..(last.codec - 1) : Passes(last.checks[i])
        /\ last.err /\ Len(last.checks) = 0 => last.kind = "no-checks"

\* two checks, the first passes and the second encodes to its word but does not
\* decode back
C22_Witness ==
    /\ Preflighted
    /\ last.err
    /\ last.codec = 2
    /\ last.kind \in { "decode-failed", "decode-mismatch" }

\* a list of two checks that pass
C22_WitnessSuccess ==
    Preflighted /\ ~last.err /\ Len(last.checks) = 2

\* the empty list
C22_WitnessEmpty ==
    Preflighted /\ last.err /\ last.checks = << >>

\* ---- C23 ----
Suggested == last.op = "GenerateSuggestions"

\* the smallest capacity among the codecs of the encoder
SmallestCapacity == Min({ ToNat(Capacity(i)) : i \in Codecs })

Reseeded(seed) == NewFeistelShuffler(shuffler.bitWidth, shuffler.rounds, seed)

\* the two shufflers return different values for some input of [0, 2^b)
DifferSomewhere(fs1, fs2) ==
    \E x \in 0..MaxValue(fs1) :
        \E r1 \in { ShufflerEncode(fs1, x) } :
            \E r2 \in { ShufflerEncode(fs2, x) } : r1 # r2

TestedSeedsDiffer ==
    \E r1 \in { ShufflerEncode(NewFeistelShuffler(16, 4, 11111), 12345) } :
        \E r2 \in { ShufflerEncode(NewFeistelShuffler(16, 4, 22222), 12345) } :
            ~r1.err /\ ~r2.err /\ r1.val # r2.val

C24_WitnessOneRound ==
    /\ JustConstructed
    /\ ~shuffler.err
    /\ shuffler.rounds = 1
    /\ shuffler.seed = 0
    /\ ~DifferSomewhere(shuffler, Reseeded(1))

\* ---- C25 ----
\* C25: no operation panics: every call returns a result or an error,
\* Encode on an encoder built from an empty pattern list included.
C25_NoPanic == ~last.panic

\* ---- C26 ----
\* what the call of frame f returns when it runs alone on the objects as
\* they were constructed
Alone(f) ==
    IF f.op = "ShufflerEncode"
    THEN ShufflerEncode(NewFeistelShuffler(shuffler.bitWidth, shuffler.rounds, shuffler.seed),
                        f.arg)
    ELSE IF f.op = "ShufflerDecode"
    THEN ShufflerDecode(NewFeistelShuffler(shuffler.bitWidth, shuffler.rounds, shuffler.seed),
                        f.arg)
    ELSE IF f.op = "Encode" THEN PhoneticEncode(NewPhoneticEncoder(config.Phonetic), f.arg)
    ELSE PhoneticDecode(NewPhoneticEncoder(config.Phonetic), f.word)

\* C26: Encode and Decode leave the shared encoder and the shared shuffler as
\* they were constructed, and every call that has returned, however its steps
\* were interleaved with the other calls, returned what it returns alone.
C26_SharedCallsAsAlone ==
    /\ \A g \in Goroutines :
          calls[g].pc = "done" => \A r \in { Alone(calls[g]) } : calls[g].res = r
    /\ (\E g \in Goroutines : calls[g].pc # "idle") =>
          /\ shuffler.roundKeys = RoundKeys(shuffler.rounds, shuffler.seed)
          /\ shuffler.mask = Pow2(shuffler.halfBits) - 1
          /\ encoder.patterns = NewPhoneticEncoder(config.Phonetic).patterns

\* one call has returned while another call on the same shuffler is between
\* two of its rounds
C26_Witness ==
    \E g, h \in Goroutines :
        /\ calls[g].pc = "done" /\ calls[g].op = "ShufflerEncode" /\ ~calls[g].res.err
        /\ calls[h].pc = "rounds" /\ calls[h].op = "ShufflerDecode"
        /\ calls[h].i = 1
        /\ shuffler.rounds = 2

\* an Encode and a Decode of the shared encoder have both returned
C26_WitnessEncoder ==
    \E g, h \in Goroutines :
        /\ calls[g].pc = "done" /\ calls[g].op = "Encode" /\ ~calls[g].res.err
        /\ calls[h].pc = "done" /\ calls[h].op = "Decode" /\ ~calls[h].res.err

\* ---- C27 ----
\* the pattern encoders in the order of the config's pattern list, as
\* newPhoneticEncoder appends them before it sorts
BuiltInOrder(pc) ==
    [i \in 1..Len(pc.Patterns) |-> buildPatternEncoder(pc.Patterns[i], pc.Placeholders)]

\* no codec has a smaller capacity than a codec before it
Ascending(ps) ==
    \A i, j \in 1..Len(ps) :
        i < j => ~SignedLess(ps[j].totalCombinations, ps[i].totalCombinations)

\* ps holds the elements of qs, each as often as qs does
PermutationOf(ps, qs) ==
    /\ Len(ps) = Len(qs)
    /\ \E f \in [1..Len(ps) -> 1..Len(ps)] :
          /\ \A i, j \in 1..Len(ps) : f[i] = f[j] => i = j
          /\ \A i \in 1..Len(ps) : ps[i] = qs[f[i]]

\* the config with its patterns in the order f
Reordered(pc, f) == [pc EXCEPT !.Patterns = [i \in 1..Len(pc.Patterns) |-> pc.Patterns[f[i]]]]

\* the orders of n patterns
Orders(n) == { f \in [1..n -> 1..n] : \A i, j \in 1..n : f[i] = f[j] => i = j }

\* C27: the codecs of an encoder newPhoneticEncoder has built are in ascending
\* order of capacity and are a permutation of the codecs built from the
\* config's patterns; the same holds for the patterns in every other order.
C27_SortedPermutation ==
    (last.op \in { "NewPhoneticEncoder", "newPhoneticEncoder" } /\ ~last.err) =>
        /\ Ascending(encoder.patterns)
        /\ PermutationOf(encoder.patterns, BuiltInOrder(config.Phonetic))
        /\ \A f \in Orders(Len(config.Phonetic.Patterns)) :
              \A e \in { newPhoneticEncoder(Reordered(config.Phonetic, f)) } :
                  /\ ~e.err
                  /\ Ascending(e.patterns)
                  /\ PermutationOf(e.patterns, BuiltInOrder(config.Phonetic))

\* three codecs that the loop has put into another order than the config's
C27_Witness ==
    /\ last.op = "newPhoneticEncoder"
    /\ ~last.err
    /\ Len(encoder.patterns) = 3
    /\ encoder.patterns[1].pattern = config.Phonetic.Patterns[2]
    /\ encoder.patterns[2].pattern = config.Phonetic.Patterns[1]

\* ---- C28 ----
\* a natural number as eight 16-bit limbs, least significant first
WideOne == << 1, 0, 0, 0, 0, 0, 0, 0 >>

RECURSIVE CarryFrom(_, _, _)
CarryFrom(r, k, c) ==
    IF k > Len(r) THEN << >>
    ELSE << (r[k] + c) % Limb >> \o CarryFrom(r, k + 1, (r[k] + c) \div Limb)

\* w * m without reduction, for w * m < 2^128 and 0 <= m < 2^15
MulWide(w, m) == CarryFrom([k \in 1..Len(w) |-> w[k] * m], 1, 0)

\* the mathematical product of the bases of the first i positions
RECURSIVE ExactProduct(_, _)
ExactProduct(positions, i) ==
    IF i = 0 THEN WideOne
    ELSE Only({ MulWide(p, positions[i].base) : p \in { ExactProduct(positions, i - 1) } })

\* the machine integer holds the number the limbs of exact denote
HoldsExactly(w, exact) ==
    /\ SubSeq(exact, 1, 4) = w
    /\ SubSeq(exact, 5, 8) = << 0, 0, 0, 0 >>
    /\ ~IsNegative(w)

\* C28: for every codec of an encoder built from a validated config,
\* totalCombinations is the exact product of the position bases and is
\* strictly positive.
C28_ExactPositiveProduct ==
    JustValidatedEncoder =>
        \A i \in Codecs :
            /\ \A exact \in { ExactProduct(encoder.patterns[i].positions,
                                           Len(encoder.patterns[i].positions)) } :
                  HoldsExactly(Capacity(i), exact)
            /\ Capacity(i) # W64(0)
            /\ ~IsNegative(Capacity(i))

\* ---- C29 ----
\* the words of codec i, as far as the numbers are enumerated
WordsOf(i) ==
    { PatternEncode(encoder.patterns[i], n).word : n \in NumbersBelow(Capacity(i)) }

\* C29: for an encoder built from a validated config with several patterns,
\* every word Decode accepts is the word Encode makes of the decoded number,
\* so two distinct accepted words never decode to one number.
C29_DecodeInjective ==
    (JustValidatedEncoder /\ Len(encoder.patterns) > 1) =>
        \A i \in Codecs :
            \A w \in WordsOf(i) :
                \A d \in { PhoneticDecode(encoder, w) } :
                    ~d.err => PhoneticEncode(encoder, ToNat(d.val)).word = w

\* ---- C30 ----
\* Config.Validate has returned for a config whose phonetic section
\* PhonidConfig.Validate accepts, with a valid round count and no expectation
ValidPhoneticChecked ==
    /\ last.op = "ConfigValidate"
    /\ Validate(config.Phonetic) = {}
    /\ config.Shuffle.Rounds \in 3..10
    /\ config.ExpectedBitWidth = 0

\* the capacity of the largest codec as the encoder holds it
HeldCapacity(c) ==
    newPhoneticEncoder(c.Phonetic).patterns[
        Len(newPhoneticEncoder(c.Phonetic).patterns)].totalCombinations

\* the least width whose domain holds that capacity; 1 when it is not positive
HeldWidth(c) ==
    IF IsNegative(HeldCapacity(c)) THEN 1 ELSE LeastWidth(HeldCapacity(c))

\* C30 as stated: the derived bit width lies in [4, 64] and Config.Validate
\* does not reject the config because of the bit width.
C30_NeverRejectedForBitWidth ==
    ValidPhoneticChecked =>
        /\ config.Shuffle.BitWidth \in 4..64
        /\ last.kind # "bitwidth-out-of-range"

\* C30, amended: the derived bit width is that of the capacity the largest
\* codec holds and lies in [1, 63]; Config.Validate rejects the config because
\* of the bit width exactly when that width is below 4, and accepts it otherwise.
C30_RejectedBelowFour ==
    ValidPhoneticChecked =>
        /\ config.Shuffle.BitWidth = HeldWidth(config)
        /\ config.Shuffle.BitWidth \in 1..63
        /\ last.kind = "bitwidth-out-of-range" <=> config.Shuffle.BitWidth < 4
        /\ config.Shuffle.BitWidth >= 4 => ~last.err

\* the config of capacity 6 has been rejected with the derived width 3
C30_Witness ==
    /\ ValidPhoneticChecked
    /\ config.Phonetic = SmallCapacityConfig
    /\ config.Shuffle.BitWidth = 3
    /\ last.kind = "bitwidth-out-of-range"

\* a config of 23 positions has been accepted with a width of 59 bits
C30_WitnessLarge ==
    /\ ValidPhoneticChecked
    /\ Len(config.Phonetic.Patterns[1]) = 23
    /\ config.Shuffle.BitWidth = 59
    /\ ~last.err

\* a config of 23 positions whose capacity is held as 0 has been rejected
\* with the width 1
C30_WitnessWrapped ==
    /\ ValidPhoneticChecked
    /\ HeldCapacity(config) = W64(0)
    /\ config.Shuffle.BitWidth = 1
    /\ last.kind = "bitwidth-out-of-range"
====
